---- MODULE Spec2Model ----
(***************************************************************************)
(* Model of the quiz bot "Проверяшка": the JSON persistence gateway        *)
(* (database.py), the test authoring flow (logic/teacher_create.py), the   *)
(* student's appeal flow (logic/student_do_test.py) and the teacher's      *)
(* review flow (logic/teacher_show_result.py).                             *)
(*                                                                         *)
(* Conventions.  A Python dict is a function with a finite domain; a       *)
(* missing key is a value outside the domain.  A JSON file holding         *)
(* {key: {"tests": [...]}} is a sequence of entries [key, tests] in        *)
(* insertion order.  uuid4() is a fresh natural number; the empty id ""    *)
(* is 0.  Wall-clock time is a logical clock counted in hours.  A Python    *)
(* str is a sequence of one-character strings ("" and None are both <<>>   *)
(* where the code only tests truthiness).                                  *)
(***************************************************************************)
EXTENDS Integers, Sequences, FiniteSets, TLC

VARIABLES
    tests_file,      \* tests.json: [valid, data]
    results_file,    \* results.json: [valid, data]
    next_uuid,       \* next value uuid4() returns
    clock,           \* datetime.now(), in hours
    deployment,      \* which process owns this Database object: "bot" or "api"
    write_queue,     \* Database.write_queue: tasks not yet taken by the worker
    unfinished,      \* Queue.unfinished_tasks, what join() waits for
    worker,          \* the orchestrator thread(s): position and locals
    thread,          \* the threads that call the gateway: position and locals
    calls,           \* number of gateway calls started so far
    logged,          \* logger.error records of the orchestrator thread
    author,          \* context.user_data and conversation state of a teacher
                     \* in the authoring flow
    student,         \* context.user_data and conversation state of a student
                     \* in the test-taking flow
    review,          \* context.user_data and conversation state of a teacher
                     \* in the review flow
    outbox,          \* the context.bot.send_message calls the last handler of
                     \* the review flow made to students
    call             \* a function or method called on its own, as the unit
                     \* tests call it: its arguments and what it returned

dbvars == <<tests_file, results_file, next_uuid, clock, deployment,
            write_queue, unfinished, worker, thread, calls, logged>>

sessions == <<author, student, review, outbox, call>>

vars == <<dbvars, sessions>>

(***************************************************************************)
(* Bounds.                                                                 *)
(***************************************************************************)
MaxCalls == 3
MaxClock == 48
MaxStack == 10
MaxQuestions == 1
MaxCommits == 1
MaxStudentStack == 14
MaxRestartDepth == 2
MaxStartClock == 0
MaxRejectedUuid == 4

None == "None"
EmptyId == 0

Users == {"u1", "u2"}
Teachers == {"t1"}
Comments == {<<"c">>, <<"d">>}
QuestionIdx == {0, 1}

(***************************************************************************)
(* Python dict helpers.                                                    *)
(***************************************************************************)
DictGet(d, k, default) == IF k \in DOMAIN d THEN d[k] ELSE default

DictPut(d, k, v) == [x \in (DOMAIN d) \cup {k} |-> IF x = k THEN v ELSE d[x]]

EmptyDict == [x \in {} |-> 0]

FirstIndex(s, P(_)) ==
    IF \E i \in 1..Len(s) : P(s[i])
    THEN CHOOSE i \in 1..Len(s) : P(s[i]) /\ \A j \in 1..(i - 1) : ~P(s[j])
    ELSE 0

(***************************************************************************)
(* database.py: the files.                                                 *)
(***************************************************************************)
EmptyFile == [valid |-> TRUE, data |-> <<>>]

\* a file whose write was cut short: json.load raises JSONDecodeError
TornFile == [valid |-> FALSE, data |-> <<>>]

load_file(file) == IF file.valid THEN file.data ELSE <<>>

\* outcome of open(..., "w") + json.dump: written, or OSError before the
\* file is truncated, or an error after truncation
IoOutcomes == {"ok", "fail_open", "fail_dump"}

save_to_file(file, data, io) ==
    CASE io = "ok"        -> [valid |-> TRUE, data |-> data]
      [] io = "fail_open" -> file
      [] io = "fail_dump" -> TornFile

KeyIndex(data, key) == FirstIndex(data, LAMBDA e : e.key = key)

HasKey(data, key) == KeyIndex(data, key) # 0

TestsOf(data, key) == IF HasKey(data, key) THEN data[KeyIndex(data, key)].tests ELSE <<>>

\* data[key]["tests"] = tests, creating the entry at the end when absent
SetTests(data, key, tests) ==
    IF HasKey(data, key)
    THEN [data EXCEPT ![KeyIndex(data, key)].tests = tests]
    ELSE Append(data, [key |-> key, tests |-> tests])

(***************************************************************************)
(* database.py: the bodies that run on the orchestrator thread.  Each      *)
(* returns the dict it would write, or raises.                             *)
(***************************************************************************)
save_test_body(data, test_data, uuid, now) ==
    LET test == [test_data EXCEPT !.id = uuid, !.created_at = now]
    IN  [exc  |-> None,
         data |-> SetTests(data, test.teacher_id, Append(TestsOf(data, test.teacher_id), test)),
         ret  |-> uuid]

save_result_body(data, user_id, result_data, uuid) ==
    LET result == [result_data EXCEPT !.id = uuid, !.appeals = <<>>]
    IN  [exc  |-> None,
         data |-> SetTests(data, user_id, Append(TestsOf(data, user_id), result)),
         ret  |-> uuid]

\* an upsert that would update the stored appeal in place
MergeAppeal(appeals, appeal_data, uuid) ==
    LET i == FirstIndex(appeals, LAMBDA a : a.question_idx = appeal_data.question_idx)
    IN  IF i > 0
        THEN [appeals EXCEPT ![i] = [@ EXCEPT !.student_comment = appeal_data.student_comment,
                                               !.status = appeal_data.status,
                                               !.timestamp = appeal_data.timestamp]]
        ELSE Append(appeals, [appeal_data EXCEPT !.id = uuid])

\* an appeal list that would grow on every submission
AppendAppeal(appeals, appeal_data, uuid) ==
    Append(appeals, [appeal_data EXCEPT !.id = uuid])

\* the appeal list after an upsert keyed by question_idx
UpsertAppeal(appeals, appeal_data, uuid) ==
    LET i == FirstIndex(appeals, LAMBDA a : a.question_idx = appeal_data.question_idx)
    IN  IF i # 0
        THEN [appeals EXCEPT ![i] = [appeal_data EXCEPT !.id = appeals[i].id]]
        ELSE Append(appeals, [appeal_data EXCEPT !.id = uuid])

save_appeal_body(data, user_id, result_id, appeal_data, uuid) ==
    LET tests == TestsOf(data, user_id)
        r     == FirstIndex(tests, LAMBDA t : t.id = result_id)
    IN  IF ~HasKey(data, user_id)
        THEN [exc |-> "ValueError", data |-> data, ret |-> EmptyId]
        ELSE IF r = 0
        THEN [exc |-> "ValueError", data |-> data, ret |-> EmptyId]
        ELSE LET appeals == UpsertAppeal(tests[r].appeals, appeal_data, uuid)
                 i       == FirstIndex(appeals, LAMBDA a : a.question_idx = appeal_data.question_idx)
             IN  [exc  |-> None,
                  data |-> SetTests(data, user_id, [tests EXCEPT ![r].appeals = appeals]),
                  ret  |-> appeals[i].id]

(***************************************************************************)
(* teacher_show_result.py: the changes the review flow makes to the dict   *)
(* it loaded from results.json before writing it back.                     *)
(***************************************************************************)
\* position <<entry, result>> of the first result satisfying P in the order
\* "for user_id, user_data in results_data.items(): for r in tests"
FirstResult(data, P(_)) ==
    LET u == FirstIndex(data, LAMBDA e : \E i \in 1..Len(e.tests) : P(e.tests[i]))
    IN  IF u = 0 THEN <<0, 0>> ELSE <<u, FirstIndex(data[u].tests, P)>>

set_score(data, result_id, q_idx, score) ==
    LET pos == FirstResult(data, LAMBDA r : r.id = result_id)
    IN  IF pos[1] = 0 THEN data
        ELSE [data EXCEPT ![pos[1]].tests[pos[2]].scores = DictPut(@, q_idx, score)]

set_comment(data, result_id, q_idx, comment) ==
    LET pos == FirstResult(data, LAMBDA r : r.id = result_id)
    IN  IF pos[1] = 0 THEN data
        ELSE [data EXCEPT ![pos[1]].tests[pos[2]].comments = DictPut(@, q_idx, comment)]

\* the appeal list of the result the loop stopped at, with the appeal
\* carrying appeal_id marked as responded
respond_in(appeals, appeal_id, comment, now) ==
    LET i == FirstIndex(appeals, LAMBDA a : a.id = appeal_id)
    IN  IF i = 0 THEN appeals
        ELSE [appeals EXCEPT ![i] = [@ EXCEPT !.status = "responded",
                                               !.teacher_comment = comment,
                                               !.response_timestamp = now]]

\* for each user, the first result of the appeal's test that answered the
\* appealed question is the one whose appeal list is searched
set_appeal_response(data, appeal_id, test_id, q_idx, comment, now) ==
    [u \in 1..Len(data) |->
        LET r == FirstIndex(data[u].tests,
                            LAMBDA t : t.test_id = test_id /\ q_idx \in DOMAIN t.answers)
        IN  IF r = 0 THEN data[u]
            ELSE [data[u] EXCEPT !.tests[r].appeals = respond_in(@, appeal_id, comment, now)]]

(***************************************************************************)
(* Sample records the gateway is called with.                              *)
(***************************************************************************)
Question(type, text, correct, options) ==
    [type |-> type, text |-> text, correct_answer |-> correct,
     options |-> options, check_comment |-> <<>>]

SampleQuestions ==
    <<Question("test", <<"q">>, <<"a">>, <<<<"b">>, <<"a">>>>),
      Question("open", <<"q">>, <<"a">>, <<>>)>>

SampleTest(teacher) ==
    [id |-> EmptyId, teacher_id |-> teacher, name |-> <<"n">>, subject |-> <<"m">>,
     classes |-> <<<<"5">>>>, questions |-> SampleQuestions, global_comment |-> <<>>,
     created_at |-> 0]

\* a record that would be stored without the scores of the report
ResultDataUnscored(test_id, answers, scores, now) ==
    [id |-> EmptyId, test_id |-> test_id, user_id |-> None, answers |-> answers,
     scores |-> [q \in DOMAIN scores |-> 0], comments |-> EmptyDict, timestamp |-> now,
     appeals |-> <<>>]

\* what _save_result builds: no user_id key, no comments key
ResultData(test_id, answers, scores, now) ==
    [id |-> EmptyId, test_id |-> test_id, user_id |-> None, answers |-> answers,
     scores |-> scores, comments |-> EmptyDict, timestamp |-> now, appeals |-> <<>>]

AppealData(q_idx, comment, now) ==
    [id |-> EmptyId, question_idx |-> q_idx, student_comment |-> comment,
     status |-> "pending", timestamp |-> now, teacher_comment |-> <<>>,
     response_timestamp |-> 0]

(***************************************************************************)
(* Python str operations used by the flows.                                *)
(***************************************************************************)
RECURSIVE lstrip(_)
lstrip(t) == IF Len(t) > 0 /\ Head(t) = " " THEN lstrip(Tail(t)) ELSE t

RECURSIVE rstrip(_)
rstrip(t) == IF Len(t) > 0 /\ t[Len(t)] = " " THEN rstrip(SubSeq(t, 1, Len(t) - 1)) ELSE t

strip(t) == rstrip(lstrip(t))

\* re.sub(r'\s+', ' ', t): one blank is kept of every run of blanks
collapse(t) ==
    LET kept == SelectSeq([i \in 1..Len(t) |-> i],
                          LAMBDA i : ~(t[i] = " " /\ i < Len(t) /\ t[i + 1] = " "))
    IN  [k \in 1..Len(kept) |-> t[kept[k]]]

\* t.split(sep): always at least one piece
RECURSIVE split(_, _)
split(t, sep) ==
    IF \A i \in 1..Len(t) : t[i] # sep THEN <<t>>
    ELSE LET i == CHOOSE k \in 1..Len(t) : t[k] = sep /\ \A j \in 1..(k - 1) : t[j] # sep
         IN  <<SubSeq(t, 1, i - 1)>> \o split(SubSeq(t, i + 1, Len(t)), sep)

StripAll(parts) == [i \in 1..Len(parts) |-> strip(parts[i])]

NonEmpty(parts) == SelectSeq(parts, LAMBDA x : Len(x) > 0)

SeqToSet(q) == {q[i] : i \in 1..Len(q)}

TextLimit == 200

sanitize_input(text) ==
    IF Len(text) = 0 THEN text
    ELSE LET kept == SelectSeq(text, LAMBDA c : c \notin {"<", ">", "|", "&"})
             t    == collapse(strip(kept))
         IN  SubSeq(t, 1, IF Len(t) < TextLimit THEN Len(t) ELSE TextLimit)

(***************************************************************************)
(* teacher_create.py: validators and the session of one teacher.           *)
(***************************************************************************)
\* utils.validate_class: ^(5|6|7|8|9|10|11)$
validate_class(c) ==
    strip(c) \in {<<"5">>, <<"6">>, <<"7">>, <<"8">>, <<"9">>, <<"1", "0">>, <<"1", "1">>}

validate_classes(classes) == \A i \in 1..Len(classes) : validate_class(classes[i])

NameLimit == 100

validate_name(name) == Len(name) <= NameLimit

MinOptions == 2
MaxOptions == 7

\* a validator that would count the distractors only
validate_distractors(options, correct_answer) ==
    /\ Len(options) >= MinOptions
    /\ Len(options) <= MaxOptions
    /\ Cardinality(SeqToSet(Append(options, correct_answer))) = Len(options) + 1

validate_options(options, correct_answer) ==
    LET all_options == Append(options, correct_answer)
    IN  /\ Len(all_options) >= MinOptions
        /\ Len(all_options) <= MaxOptions
        /\ Cardinality(SeqToSet(all_options)) = Len(all_options)

\* a validator that would not look at the name
validate_test_unnamed(test) ==
    /\ Len(test.subject) > 0
    /\ Len(test.classes) > 0
    /\ Len(test.questions) > 0
    /\ test.teacher_id # None

validate_test(test) ==
    /\ Len(test.subject) > 0
    /\ Len(test.classes) > 0
    /\ Len(test.name) > 0
    /\ Len(test.questions) > 0
    /\ test.teacher_id # None

\* reset_state: the empty draft
EmptyTest ==
    [id |-> EmptyId, subject |-> <<>>, classes |-> <<>>, name |-> <<>>, questions |-> <<>>,
     global_comment |-> <<>>, teacher_id |-> None, created_at |-> 0]

\* a teacher who has not entered the authoring conversation yet
IdleAuthor ==
    [conv |-> "END", state_stack |-> <<>>, state_data |-> EmptyDict,
     current_test |-> EmptyTest, editing_question_idx |-> -1, editing_part |-> None,
     shown |-> None]

\* StateManager: the stack
push(stack, state) == Append(stack, state)

\* a pop that would return the oldest state
pop_first(stack) ==
    IF Len(stack) > 0
    THEN [ret |-> stack[1], stack |-> SubSeq(stack, 2, Len(stack))]
    ELSE [ret |-> None, stack |-> stack]

pop(stack) ==
    IF Len(stack) > 0
    THEN [ret |-> stack[Len(stack)], stack |-> SubSeq(stack, 1, Len(stack) - 1)]
    ELSE [ret |-> None, stack |-> stack]

current(stack) == IF Len(stack) > 0 THEN stack[Len(stack)] ELSE None

\* a set_data that would store nothing
set_data_unsaved(state_data, state, key, value) == state_data

\* StateManager: state_data[state][key]
set_data(state_data, state, key, value) ==
    DictPut(state_data, state, DictPut(DictGet(state_data, state, EmptyDict), key, value))

get_data(state_data, state, key, default) ==
    DictGet(DictGet(state_data, state, EmptyDict), key, default)

\* a clear_state_data that would drop the data of every state
clear_every_state(state_data, state) == EmptyDict

clear_state_data(state_data, state) ==
    [x \in (DOMAIN state_data) \ {state} |-> state_data[x]]

reset_state(s) ==
    [s EXCEPT !.current_test = EmptyTest, !.editing_question_idx = -1,
              !.state_data = EmptyDict]

(***************************************************************************)
(* student_do_test.py: the session of one student.  A key that user_data   *)
(* does not hold yet is <<>> (test_completed_at, current_result_id), -1    *)
(* (appeal_question_idx) or None (user_id).  The message bookkeeping keys  *)
(* test_started and instructions_msg_id and the write-only key test_name   *)
(* are left out.  report is the score data behind the report text of the   *)
(* message shown last, <<>> when that message is not the score report.     *)
(***************************************************************************)
IdleStudent ==
    [conv |-> "END", state_stack |-> <<>>, state_data |-> EmptyDict, user_id |-> None,
     current_test |-> EmptyDict, user_answers |-> EmptyDict, current_test_id |-> EmptyId,
     current_question_idx |-> 0, questions |-> <<>>, student_info |-> <<>>,
     test_completed_at |-> <<>>, current_result_id |-> <<>>, appeal_question_idx |-> -1,
     shown |-> None, report |-> <<>>]

\* teacher_show_result.py: a teacher who has not entered the review
\* conversation yet.  A key that user_data does not hold, or holds as None,
\* is 0 for an id and None for a state; current_question_idx is -2 while
\* the key is absent and -1 when it holds None.  The page counters
\* (tests_page, students_page, ..., text_part_idx, student_question_idx),
\* which only select what a list shows, are left out.
IdleReview ==
    [conv |-> "END", state_stack |-> <<>>, current_test_id |-> EmptyId,
     pending_notifications |-> <<>>, test_changes |-> EmptyDict, current_result_id |-> EmptyId,
     current_question_idx |-> -2, return_state |-> None, current_appeal_id |-> EmptyId,
     temp_test_id |-> EmptyId, shown |-> <<>>]

student_reset_state(s) ==
    [s EXCEPT !.current_test = EmptyDict, !.user_answers = EmptyDict,
              !.current_test_id = EmptyId, !.current_question_idx = 0,
              !.state_data = EmptyDict]

(***************************************************************************)
(* database.py: the write queue, its orchestrator thread and the callers.  *)
(***************************************************************************)
\* bot.py runs every handler on the event loop thread; FastAPI runs its
\* synchronous endpoints on pool threads
Threads == {"loop", "pool1", "pool2"}

ActiveThreads == IF deployment = "bot" THEN {"loop"} ELSE {"pool1", "pool2"}

\* a gateway that would start two orchestrator threads
TwoWorkers == {1, 2}

\* _start_orchestrator starts one worker thread
Workers == {1}

NoTask == [caller |-> None, op |-> None, key |-> None, rid |-> 0,
           payload |-> <<>>]

IdleWorker == [pc |-> "idle", task |-> NoTask, data |-> <<>>]

IdleThread == [pc |-> "idle", op |-> None, key |-> None, rid |-> 0,
               q |-> 0, val |-> <<>>, num |-> 0, cell |-> EmptyId, ret |-> EmptyId,
               raised |-> None, snapshot |-> <<>>]

\* one result of test 1 stored by the bot for u1, answered on both questions
StoredResult == [ResultData(1, [q \in QuestionIdx |-> <<"a">>], [q \in QuestionIdx |-> 10], 0)
                    EXCEPT !.id = 2]

StoredTests == <<[key |-> "t1", tests |-> <<[SampleTest("t1") EXCEPT !.id = 1]>>]>>

StoredResults == <<[key |-> "u1", tests |-> <<StoredResult>>]>>

FirstFreeUuid == StoredResult.id + 1

ResultIds == {2, 3}

\* u1 holds result 2 and may come to hold result 3; u2 holds nothing at first
AppealTargets == {<<"u1", 2>>, <<"u1", 3>>, <<"u2", 2>>}

InitFiles ==
    /\ tests_file = [valid |-> TRUE, data |-> StoredTests]
    /\ results_file = [valid |-> TRUE, data |-> StoredResults]
    /\ next_uuid = FirstFreeUuid
    /\ clock = 0

InitGateway ==
    /\ write_queue = <<>>
    /\ unfinished = 0
    /\ worker = [w \in Workers |-> IdleWorker]
    /\ thread = [t \in Threads |-> IdleThread]
    /\ calls = 0
    /\ logged = [t \in Threads |-> None]

\* nothing has been called on its own
NoCall == [op |-> None, args |-> <<>>, returned |-> FALSE, ret |-> None]

InitSessions ==
    /\ author = IdleAuthor
    /\ student = IdleStudent
    /\ review = IdleReview
    /\ outbox = <<>>
    /\ call = NoCall

InitDB ==
    /\ InitFiles
    /\ InitGateway
    /\ InitSessions
    /\ deployment \in {"bot", "api"}

\* self.write_queue.put((_save, (), {})) followed by the start of join()
Put(t, op, key, rid, payload) ==
    /\ t \in ActiveThreads
    /\ thread[t].pc = "idle"
    /\ calls < MaxCalls
    /\ calls' = calls + 1
    /\ clock' = clock + 1
    /\ write_queue' = Append(write_queue,
            [caller |-> t, op |-> op, key |-> key, rid |-> rid, payload |-> payload])
    /\ unfinished' = unfinished + 1
    /\ thread' = [thread EXCEPT ![t] = [IdleThread EXCEPT !.pc = "join", !.op = op,
                                            !.key = key, !.rid = rid]]
    /\ logged' = [logged EXCEPT ![t] = None]
    /\ UNCHANGED <<sessions, tests_file, results_file, next_uuid, deployment, worker>>

save_test(t) ==
    \E teacher \in Teachers : Put(t, "save_test", teacher, 0, SampleTest(teacher))

save_result(t) ==
    \E u \in Users :
        Put(t, "save_result", u, 0,
            ResultData(1, [q \in QuestionIdx |-> <<"a">>], [q \in QuestionIdx |-> 10], clock))

save_appeal(t) ==
    \E target \in AppealTargets, q \in QuestionIdx, c \in Comments :
        Put(t, "save_appeal", target[1], target[2], AppealData(q, c, clock))

\* write_queue.join() returns once every queued task is done; the caller
\* then returns result[0] (save_test, save_result) or None (save_appeal)
join_returns(t) ==
    /\ thread[t].pc = "join"
    /\ unfinished = 0
    /\ thread' = [thread EXCEPT ![t] = [IdleThread EXCEPT !.op = thread[t].op,
                                                          !.ret = thread[t].cell,
                                                          !.raised = None]]
    /\ UNCHANGED <<sessions, tests_file, results_file, next_uuid, clock, deployment, write_queue,
                   unfinished, worker, calls, logged>>

\* func, args, kwargs = self.write_queue.get()
worker_get(w) ==
    /\ worker[w].pc = "idle"
    /\ write_queue # <<>>
    /\ worker' = [worker EXCEPT ![w] = [pc |-> "run", task |-> Head(write_queue), data |-> <<>>]]
    /\ write_queue' = Tail(write_queue)
    /\ UNCHANGED <<sessions, tests_file, results_file, next_uuid, clock, deployment, unfinished,
                   thread, calls, logged>>

FileOf(op) == IF op = "save_test" THEN tests_file ELSE results_file

\* the first statement of every _save closure: data = self._load_file(...)
worker_load(w) ==
    /\ worker[w].pc = "run"
    /\ worker' = [worker EXCEPT ![w].pc = "loaded",
                                ![w].data = load_file(FileOf(worker[w].task.op))]
    /\ UNCHANGED <<sessions, tests_file, results_file, next_uuid, clock, deployment, write_queue,
                   unfinished, thread, calls, logged>>

Body(task, data, uuid, now) ==
    CASE task.op = "save_test"   -> save_test_body(data, task.payload, uuid, now)
      [] task.op = "save_result" -> save_result_body(data, task.key, task.payload, uuid)
      [] task.op = "save_appeal" -> save_appeal_body(data, task.key, task.rid, task.payload, uuid)

\* the rest of the closure, the except clause of the worker loop and
\* task_done()
worker_save(w) ==
    \E io \in IoOutcomes :
        LET task == worker[w].task
            out  == Body(task, worker[w].data, next_uuid, clock)
            exc  == IF out.exc # None THEN out.exc
                    ELSE IF io # "ok" THEN "OSError" ELSE None
        IN  /\ worker[w].pc = "loaded"
            /\ (out.exc # None => io = "ok")
            /\ IF out.exc # None
               THEN UNCHANGED <<tests_file, results_file>>
               ELSE IF task.op = "save_test"
               THEN /\ tests_file' = save_to_file(tests_file, out.data, io)
                    /\ UNCHANGED results_file
               ELSE /\ results_file' = save_to_file(results_file, out.data, io)
                    /\ UNCHANGED tests_file
            /\ next_uuid' = IF out.exc = None /\ out.ret = next_uuid THEN next_uuid + 1
                            ELSE next_uuid
            /\ thread' = IF exc = None /\ task.op # "save_appeal"
                         THEN [thread EXCEPT ![task.caller].cell = out.ret]
                         ELSE thread
            /\ logged' = IF exc # None THEN [logged EXCEPT ![task.caller] = exc]
                         ELSE logged
            /\ unfinished' = unfinished - 1
            /\ worker' = [worker EXCEPT ![w] = IdleWorker]
            /\ UNCHANGED <<sessions, clock, deployment, write_queue, calls>>

(***************************************************************************)
(* database.py: the readers.                                               *)
(***************************************************************************)
RECURSIVE FlattenSeq(_)
FlattenSeq(ss) == IF Len(ss) = 0 THEN <<>> ELSE Head(ss) \o FlattenSeq(Tail(ss))

\* every result, with the key it is filed under injected as user_id
load_all_results(data) ==
    FlattenSeq([u \in 1..Len(data) |->
        [i \in 1..Len(data[u].tests) |-> [data[u].tests[i] EXCEPT !.user_id = data[u].key]]])

LoadedAppeal(a, user_id, test_id) ==
    [id |-> a.id, question_idx |-> a.question_idx, student_comment |-> a.student_comment,
     status |-> a.status, timestamp |-> a.timestamp, teacher_comment |-> a.teacher_comment,
     response_timestamp |-> a.response_timestamp, user_id |-> user_id, test_id |-> test_id]

\* every appeal, with user_id and test_id injected
load_all_appeals(data) ==
    FlattenSeq([u \in 1..Len(data) |->
        FlattenSeq([i \in 1..Len(data[u].tests) |->
            [k \in 1..Len(data[u].tests[i].appeals) |->
                LoadedAppeal(data[u].tests[i].appeals[k], data[u].key, data[u].tests[i].test_id)]])])

load_test_by_id(data, test_id) ==
    LET all == FlattenSeq([u \in 1..Len(data) |-> data[u].tests])
        i   == FirstIndex(all, LAMBDA t : t.id = test_id)
    IN  IF i = 0 THEN <<>> ELSE <<all[i]>>

(***************************************************************************)
(* teacher_show_result.py: the review flow's own read-modify-write of      *)
(* results.json (save_score, save_comment, save_appeal_response), which    *)
(* does not go through the write queue.  It runs on the event loop thread  *)
(* with no await between the load and the save.                            *)
(***************************************************************************)
Scores == {0, 5}

\* the result or appeal id, question, and text or number the handler got
DirectArgs ==
    [op : {"save_score"}, rid : ResultIds, q : QuestionIdx, val : {<<>>}, num : Scores]
    \cup [op : {"save_comment"}, rid : ResultIds, q : QuestionIdx, val : Comments, num : {0}]
    \cup [op : {"save_appeal_response"}, rid : {3, 4}, q : {0}, val : Comments, num : {0}]

direct_load(t) ==
    /\ deployment = "bot"
    /\ t = "loop"
    /\ thread[t].pc = "idle"
    /\ calls < MaxCalls
    /\ calls' = calls + 1
    /\ clock' = clock + 1
    /\ \E a \in DirectArgs :
            thread' = [thread EXCEPT ![t] = [IdleThread EXCEPT !.pc = "loaded",
                            !.op = a.op, !.rid = a.rid, !.q = a.q, !.val = a.val, !.num = a.num,
                            !.snapshot = load_file(results_file)]]
    /\ UNCHANGED <<sessions, tests_file, results_file, next_uuid, deployment, write_queue,
                   unfinished, worker, logged>>

\* what the handler writes back, given what it loaded
DirectChange(th, appeals, now) ==
    CASE th.op = "save_score"   -> set_score(th.snapshot, th.rid, th.q, th.num)
      [] th.op = "save_comment" -> set_comment(th.snapshot, th.rid, th.q, th.val)
      [] th.op = "save_appeal_response" ->
            LET i == FirstIndex(appeals, LAMBDA a : a.id = th.rid)
            IN  IF i = 0 THEN th.snapshot
                ELSE set_appeal_response(th.snapshot, th.rid, appeals[i].test_id,
                                         appeals[i].question_idx, th.val, now)

direct_save(t) ==
    \E io \in IoOutcomes :
        LET new == DirectChange(thread[t], load_all_appeals(thread[t].snapshot), clock)
        IN  /\ thread[t].pc = "loaded"
            /\ thread[t].op \in {"save_score", "save_comment", "save_appeal_response"}
            /\ (new = thread[t].snapshot => io = "ok")
            /\ results_file' = IF new = thread[t].snapshot THEN results_file
                               ELSE save_to_file(results_file, new, io)
            /\ thread' = [thread EXCEPT ![t] = [IdleThread EXCEPT !.op = thread[t].op,
                                    !.raised = IF new # thread[t].snapshot /\ io # "ok"
                                               THEN "OSError" ELSE None]]
            /\ UNCHANGED <<sessions, tests_file, next_uuid, clock, deployment, write_queue,
                           unfinished, worker, calls, logged>>

NextDB ==
    \/ \E t \in Threads : save_test(t)
    \/ \E t \in Threads : save_result(t)
    \/ \E t \in Threads : save_appeal(t)
    \/ \E t \in Threads : join_returns(t)
    \/ \E w \in Workers : worker_get(w)
    \/ \E w \in Workers : worker_load(w)
    \/ \E w \in Workers : worker_save(w)
    \/ \E t \in Threads : direct_load(t)
    \/ \E t \in Threads : direct_save(t)

SpecDB == InitDB /\ [][NextDB]_vars

(***************************************************************************)
(* Properties of the persistence gateway, checked under SpecDB.            *)
(***************************************************************************)
\* the writers that have read a store and not yet written it back
MidCycle(op_is_tests) ==
    {<<"worker", w>> : w \in {x \in Workers : worker[x].pc = "loaded"
                                  /\ (worker[x].task.op = "save_test") = op_is_tests}}
    \cup {<<"thread", t>> : t \in {x \in Threads : thread[x].pc = "loaded" /\ ~op_is_tests}}

\* C1: every mutation of a store runs its read-modify-write cycle with no
\* other mutation's cycle interleaved: at most one writer is between its
\* read and its write of a store, and whenever a store changes, the dict the
\* writer had read is what the store held just before the write, so no
\* applied update is overwritten by a write computed from an older read.
C1_NoInterleavedCycle ==
    /\ [](Cardinality(MidCycle(TRUE)) <= 1 /\ Cardinality(MidCycle(FALSE)) <= 1)
    /\ [][/\ tests_file' # tests_file =>
                \E w \in Workers : /\ worker[w].pc = "loaded"
                                   /\ worker'[w].pc = "idle"
                                   /\ worker[w].task.op = "save_test"
                                   /\ worker[w].data = load_file(tests_file)
          /\ results_file' # results_file =>
                \/ \E w \in Workers : /\ worker[w].pc = "loaded"
                                      /\ worker'[w].pc = "idle"
                                      /\ worker[w].task.op \in {"save_result", "save_appeal"}
                                      /\ worker[w].data = load_file(results_file)
                \/ \E t \in Threads : /\ thread[t].pc = "loaded"
                                      /\ thread'[t].pc = "idle"
                                      /\ thread[t].snapshot = load_file(results_file)]_vars

\* two API callers inside a mutation at once, after an earlier update was
\* applied: one task mid-cycle on the worker, the other still queued
C1_Witness ==
    /\ deployment = "api"
    /\ results_file.data # StoredResults
    /\ write_queue # <<>>
    /\ \E w \in Workers : worker[w].pc = "loaded" /\ worker[w].task.op # "save_test"

AllAppealLists(data) ==
    {data[u].tests[i].appeals : <<u, i>> \in {p \in (1..Len(data)) \X (1..3) :
                                                   p[2] <= Len(data[p[1]].tests)}}

AppealsOf(data, user_id, result_id) ==
    LET tests == TestsOf(data, user_id)
        r     == FirstIndex(tests, LAMBDA t : t.id = result_id)
    IN  IF r = 0 THEN <<>> ELSE tests[r].appeals

\* C3: a Result never holds two appeals with the same question_idx, and a
\* save_appeal that is applied leaves exactly one appeal for its
\* (result_id, question_idx), carrying the submitted student_comment and
\* timestamp and, when one was stored before, the id of the stored one.
C3_OneAppealPerQuestion ==
    /\ [](\A appeals \in AllAppealLists(results_file.data) :
            \A i, j \in 1..Len(appeals) :
                appeals[i].question_idx = appeals[j].question_idx => i = j)
    /\ [][\A w \in Workers :
            (/\ worker[w].pc = "loaded"
             /\ worker'[w].pc = "idle"
             /\ worker[w].task.op = "save_appeal"
             /\ results_file' # results_file
             /\ results_file'.valid)
            => LET task   == worker[w].task
                   before == AppealsOf(results_file.data, task.key, task.rid)
                   after  == AppealsOf(results_file'.data, task.key, task.rid)
                   mine   == {k \in 1..Len(after) :
                                 after[k].question_idx = task.payload.question_idx}
               IN  /\ Cardinality(mine) = 1
                   /\ \A k \in mine :
                        /\ after[k].student_comment = task.payload.student_comment
                        /\ after[k].timestamp = task.payload.timestamp
                        /\ \A j \in 1..Len(before) :
                              before[j].question_idx = task.payload.question_idx
                              => after[k].id = before[j].id]_vars

\* an appeal that kept its id while it was rewritten after a younger appeal
\* of the same result had been created
C3_Witness ==
    \E appeals \in AllAppealLists(results_file.data) :
        \E i, j \in 1..Len(appeals) :
            appeals[i].id < appeals[j].id /\ appeals[i].timestamp > appeals[j].timestamp

\* C5: a save_appeal whose user_id is absent from the results store, or
\* whose result_id is not among that user's results, leaves the store
\* unchanged and returns to its caller with a NotFound (ValueError) raised.
C5_NotFoundReported ==
    [][/\ \A w \in Workers :
            (/\ worker[w].pc = "loaded"
             /\ worker[w].task.op = "save_appeal"
             /\ worker'[w].pc = "idle"
             /\ logged'[worker[w].task.caller] = "ValueError")
            => results_file' = results_file
       /\ \A t \in Threads :
            (/\ thread[t].pc = "join"
             /\ thread'[t].pc = "idle"
             /\ thread[t].op = "save_appeal"
             /\ logged[t] = "ValueError")
            => thread'[t].raised = "ValueError"]_vars

(***************************************************************************)
(* teacher_create.py: the authoring conversation.  Each action is one      *)
(* handler run to completion on the event loop for one update of the       *)
(* teacher; the ConversationHandler offers it in the states of its map,    *)
(* and a button of any earlier message may be pressed.  Messages are       *)
(* delivered; "shown" is the key of the last one.                           *)
(***************************************************************************)
AuthorStates ==
    {"TEACHER_SELECT_SUBJECT", "TEACHER_SELECT_CLASS", "TEACHER_ENTER_NAME",
     "TEACHER_QUESTION_TYPE", "TEACHER_ENTER_QUESTION", "TEACHER_ENTER_CORRECT_ANSWER",
     "TEACHER_ADD_OPTIONS", "TEACHER_ADD_COMMENT", "TEACHER_FINISH_CREATION",
     "TEACHER_EDIT_QUESTIONS", "TEACHER_EDIT_QUESTION_PART", "TEACHER_EDIT_QUESTION_CONTENT",
     "TEACHER_GLOBAL_COMMENT", "TEACHER_EDIT_SUBJECT", "TEACHER_EDIT_CLASSES",
     "TEACHER_EDIT_GLOBAL_COMMENT", "TEACHER_FINAL_CONFIRM"}

\* the suffix of the subj_ and type_ buttons, and the texts a teacher types
Subjects == {<<"m">>}
QuestionTypes == {"test", "open"}
ClassTexts == {<<"5">>, <<"4">>}
\* a name one character longer than validate_name accepts
LongName == [i \in 1..(NameLimit + 1) |-> "n"]
NameTexts == {<<"n">>, <<"<">>, LongName}
QuestionTexts == {<<"q">>, <<"<">>}
AnswerTexts == {<<"a">>}
OptionTexts == {<<"b">>, <<"a">>}
CommentTexts == {<<"k">>}
GlobalTexts == {<<"g">>, <<"/", "s", "k", "i", "p">>}
EditTexts == {<<"b">>}
EditParts == {"text", "correct", "options", "comment"}

\* safe_edit_message / safe_reply_text with the message of that key,
\* followed by "return state"
Reply(s, msg, state) == [s EXCEPT !.shown = msg, !.conv = state]

\* the handler raised: the update is dropped and the conversation stays
Raises(s) == [s EXCEPT !.shown = "exception"]

\* questions[-1], which raises IndexError on an empty list
IndexErrorOr(pre, s) ==
    IF Len(author.current_test.questions) > 0 THEN s ELSE Raises(pre)

LastQ == Len(author.current_test.questions)

\* [c.strip() for c in text.split(',')]
split_strip(text) == StripAll(split(text, ","))

\* [opt.strip() for opt in text.split(',') if opt.strip()]
split_options(text) == NonEmpty(StripAll(split(text, ",")))

\* the deepest stack followed: MaxStack in the conversation entered from the
\* menu, MaxEditStack when the question-edit handlers are run on a finished
\* draft, whose stack is nine states deep before the first of them
MaxEditStack == 13

StackLimit == IF call.op = None THEN MaxStack ELSE MaxEditStack

\* a handler returns, leaving the session as s
Handled(s) ==
    /\ Len(s.state_stack) <= StackLimit
    /\ author' = s
    /\ UNCHANGED <<dbvars, student, review, outbox, call>>

start_creation ==
    \E teacher \in Teachers :
        LET s == [reset_state(author) EXCEPT !.current_test.teacher_id = teacher,
                                             !.state_stack = push(@, "TEACHER_SELECT_SUBJECT")]
        IN  /\ calls < MaxCommits
            /\ author.conv \in AuthorStates \cup {"END", "TEACHER_MAIN"}
            /\ Handled(Reply(s, "select_subject", "TEACHER_SELECT_SUBJECT"))

process_subject ==
    \E button \in Subjects :
        LET subject == sanitize_input(button)
            s == [author EXCEPT
                    !.state_data = set_data(@, "TEACHER_SELECT_SUBJECT", "subject", subject),
                    !.current_test.subject = subject,
                    !.state_stack = push(@, "TEACHER_SELECT_CLASS")]
        IN  /\ author.conv = "TEACHER_SELECT_SUBJECT"
            /\ Handled(Reply(s, "select_class", "TEACHER_SELECT_CLASS"))

\* a process_class that would store the classes before validating them
process_class_unchecked ==
    \E text \in ClassTexts :
        LET classes == split_strip(sanitize_input(text))
            s == [author EXCEPT
                    !.state_data = set_data(@, "TEACHER_SELECT_CLASS", "classes", classes),
                    !.current_test.classes = classes]
        IN  /\ author.conv = "TEACHER_SELECT_CLASS"
            /\ Handled(IF ~validate_classes(classes)
                       THEN Reply(s, "invalid_class", "TEACHER_SELECT_CLASS")
                       ELSE Reply([s EXCEPT !.state_stack = push(@, "TEACHER_ENTER_NAME")],
                                  "enter_name", "TEACHER_ENTER_NAME"))

process_class ==
    \E text \in ClassTexts :
        LET classes == split_strip(sanitize_input(text))
            s == [author EXCEPT
                    !.state_data = set_data(@, "TEACHER_SELECT_CLASS", "classes", classes),
                    !.current_test.classes = classes,
                    !.state_stack = push(@, "TEACHER_ENTER_NAME")]
        IN  /\ author.conv = "TEACHER_SELECT_CLASS"
            /\ Handled(IF ~validate_classes(classes)
                       THEN Reply(author, "invalid_class", "TEACHER_SELECT_CLASS")
                       ELSE Reply(s, "enter_name", "TEACHER_ENTER_NAME"))

move_forward_class ==
    LET classes == get_data(author.state_data, "TEACHER_SELECT_CLASS", "classes", <<>>)
        s == [author EXCEPT !.state_stack = push(@, "TEACHER_ENTER_NAME")]
    IN  /\ author.conv = "TEACHER_SELECT_CLASS"
        /\ Handled(IF Len(classes) = 0
                   THEN Reply(author, "invalid_class", "TEACHER_SELECT_CLASS")
                   ELSE Reply(s, "enter_name", "TEACHER_ENTER_NAME"))

back_to_subject_select ==
    /\ author.conv = "TEACHER_SELECT_CLASS"
    /\ Handled(Reply([author EXCEPT !.state_stack = pop(@).stack],
                     "select_subject", "TEACHER_SELECT_SUBJECT"))

process_test_name ==
    \E text \in NameTexts :
        LET name == sanitize_input(text)
            s == [author EXCEPT
                    !.state_data = set_data(@, "TEACHER_ENTER_NAME", "name", name),
                    !.current_test.name = name,
                    !.state_stack = push(@, "TEACHER_QUESTION_TYPE")]
        IN  /\ author.conv = "TEACHER_ENTER_NAME"
            /\ Handled(IF ~validate_name(name)
                       THEN Reply(author, "invalid_name", "TEACHER_ENTER_NAME")
                       ELSE Reply(s, "select_question_type", "TEACHER_QUESTION_TYPE"))

move_forward_name ==
    LET name == get_data(author.state_data, "TEACHER_ENTER_NAME", "name", <<>>)
        s == [author EXCEPT !.state_stack = push(@, "TEACHER_QUESTION_TYPE")]
    IN  /\ author.conv = "TEACHER_ENTER_NAME"
        /\ Handled(IF Len(name) = 0
                   THEN Reply(author, "invalid_name", "TEACHER_ENTER_NAME")
                   ELSE Reply(s, "select_question_type", "TEACHER_QUESTION_TYPE"))

back_to_class_input ==
    /\ author.conv = "TEACHER_ENTER_NAME"
    /\ Handled(Reply([author EXCEPT !.state_stack = pop(@).stack],
                     "select_class", "TEACHER_SELECT_CLASS"))

\* what process_question_type does to the session before it sends its
\* message
question_type_chosen(s, q_type) ==
    [s EXCEPT !.state_data = set_data(@, "TEACHER_QUESTION_TYPE", "question_type", q_type),
              !.current_test.questions = Append(@, Question(q_type, <<>>, <<>>, <<>>)),
              !.state_stack = push(@, "TEACHER_ENTER_QUESTION")]

process_question_type ==
    \E q_type \in QuestionTypes :
        LET s == question_type_chosen(author, q_type)
        IN  /\ LastQ < MaxQuestions
            /\ author.conv = "TEACHER_QUESTION_TYPE"
            /\ Handled(Reply(s, "enter_question", "TEACHER_ENTER_QUESTION"))

back_to_test_name ==
    /\ author.conv = "TEACHER_QUESTION_TYPE"
    /\ Handled(Reply([author EXCEPT !.state_stack = pop(@).stack],
                     "enter_name", "TEACHER_ENTER_NAME"))

\* the part of _finalize_question shared by the handlers that complete a
\* question
finalize_question(s) ==
    LET cleared == clear_state_data(clear_state_data(clear_state_data(clear_state_data(
                       clear_state_data(s.state_data, "TEACHER_QUESTION_TYPE"),
                       "TEACHER_ENTER_QUESTION"), "TEACHER_ENTER_CORRECT_ANSWER"),
                       "TEACHER_ADD_OPTIONS"), "TEACHER_ADD_COMMENT")
    IN  Reply([s EXCEPT !.state_stack = push(@, "TEACHER_FINISH_CREATION"),
                        !.state_data = cleared],
              "question_added", "TEACHER_FINISH_CREATION")

\* the reply of process_correct_answer and move_forward_correct_answer
after_correct_answer(s) ==
    IF s.current_test.questions[Len(s.current_test.questions)].type = "test"
    THEN Reply([s EXCEPT !.state_stack = push(@, "TEACHER_ADD_OPTIONS")],
               "enter_options", "TEACHER_ADD_OPTIONS")
    ELSE Reply([s EXCEPT !.state_stack = push(@, "TEACHER_ADD_COMMENT")],
               "enter_comment", "TEACHER_ADD_COMMENT")

process_question_text ==
    \E text \in QuestionTexts :
        LET question_text == sanitize_input(text)
            pre == [author EXCEPT !.state_data = set_data(@, "TEACHER_ENTER_QUESTION",
                                                          "question_text", question_text)]
            s == [pre EXCEPT !.current_test.questions[LastQ].text = question_text,
                             !.state_stack = push(@, "TEACHER_ENTER_CORRECT_ANSWER")]
        IN  /\ author.conv = "TEACHER_ENTER_QUESTION"
            /\ Handled(IndexErrorOr(pre, Reply(s, "enter_correct_answer",
                                               "TEACHER_ENTER_CORRECT_ANSWER")))

move_forward_question ==
    LET question_text == get_data(author.state_data, "TEACHER_ENTER_QUESTION",
                                  "question_text", <<>>)
        s == [author EXCEPT !.current_test.questions[LastQ].text = question_text,
                            !.state_stack = push(@, "TEACHER_ENTER_CORRECT_ANSWER")]
    IN  /\ author.conv = "TEACHER_ENTER_QUESTION"
        /\ Handled(IndexErrorOr(author,
                       IF Len(question_text) = 0
                       THEN Reply(author, "enter_question", "TEACHER_ENTER_QUESTION")
                       ELSE Reply(s, "enter_correct_answer", "TEACHER_ENTER_CORRECT_ANSWER")))

\* also bound to the add_another button of the finalization menu and of the
\* question list
back_to_question_type_select ==
    LET questions == author.current_test.questions
        s == [author EXCEPT
                !.state_stack = pop(@).stack,
                !.current_test.questions =
                    IF Len(questions) > 0 /\ Len(questions[Len(questions)].text) = 0
                    THEN SubSeq(questions, 1, Len(questions) - 1)
                    ELSE questions]
    IN  /\ author.conv \in {"TEACHER_ENTER_QUESTION", "TEACHER_FINISH_CREATION", "TEACHER_EDIT_QUESTIONS"}
        /\ Handled(Reply(s, "select_question_type", "TEACHER_QUESTION_TYPE"))

process_correct_answer ==
    \E text \in AnswerTexts :
        LET correct_answer == sanitize_input(text)
            pre == [author EXCEPT !.state_data = set_data(@, "TEACHER_ENTER_CORRECT_ANSWER",
                                                          "correct_answer", correct_answer)]
            s == [pre EXCEPT !.current_test.questions[LastQ].correct_answer = correct_answer]
        IN  /\ author.conv = "TEACHER_ENTER_CORRECT_ANSWER"
            /\ Handled(IndexErrorOr(pre, after_correct_answer(s)))

move_forward_correct_answer ==
    LET correct_answer == get_data(author.state_data, "TEACHER_ENTER_CORRECT_ANSWER",
                                   "correct_answer", <<>>)
        s == [author EXCEPT !.current_test.questions[LastQ].correct_answer = correct_answer]
    IN  /\ author.conv = "TEACHER_ENTER_CORRECT_ANSWER"
        /\ Handled(IndexErrorOr(author,
                       IF Len(correct_answer) = 0
                       THEN Reply(author, "invalid_correct_answer",
                                  "TEACHER_ENTER_CORRECT_ANSWER")
                       ELSE after_correct_answer(s)))

back_to_question_text_input ==
    /\ author.conv = "TEACHER_ENTER_CORRECT_ANSWER"
    /\ Handled(Reply([author EXCEPT !.state_stack = pop(@).stack],
                     "enter_question", "TEACHER_ENTER_QUESTION"))

process_options ==
    \E text \in OptionTexts :
        LET options == split_options(sanitize_input(text))
            correct_answer == author.current_test.questions[LastQ].correct_answer
            s == [author EXCEPT
                    !.state_data = set_data(@, "TEACHER_ADD_OPTIONS", "options", options),
                    !.current_test.questions[LastQ].options = Append(options, correct_answer)]
        IN  /\ author.conv = "TEACHER_ADD_OPTIONS"
            /\ Handled(IndexErrorOr(author,
                           IF ~validate_options(options, correct_answer)
                           THEN Reply(author, "invalid_options", "TEACHER_ADD_OPTIONS")
                           ELSE finalize_question(s)))

move_forward_options ==
    LET options == get_data(author.state_data, "TEACHER_ADD_OPTIONS", "options", <<>>)
        correct_answer == author.current_test.questions[LastQ].correct_answer
        s == [author EXCEPT
                !.current_test.questions[LastQ].options = Append(options, correct_answer)]
    IN  /\ author.conv = "TEACHER_ADD_OPTIONS"
        /\ Handled(IndexErrorOr(author,
                       IF ~validate_options(options, correct_answer)
                       THEN Reply(author, "invalid_options", "TEACHER_ADD_OPTIONS")
                       ELSE finalize_question(s)))

back_to_correct_answer_input ==
    LET pre == [author EXCEPT !.state_stack = pop(@).stack]
    IN  /\ author.conv \in {"TEACHER_ADD_OPTIONS", "TEACHER_ADD_COMMENT"}
        /\ Handled(IndexErrorOr(pre, Reply(pre, "enter_correct_answer",
                                           "TEACHER_ENTER_CORRECT_ANSWER")))

process_comment ==
    \E text \in CommentTexts :
        LET comment == sanitize_input(text)
            pre == [author EXCEPT !.state_data = set_data(@, "TEACHER_ADD_COMMENT",
                                                          "comment", comment)]
            s == [pre EXCEPT !.current_test.questions[LastQ].check_comment = comment]
        IN  /\ author.conv = "TEACHER_ADD_COMMENT"
            /\ Handled(IndexErrorOr(pre, finalize_question(s)))

move_forward_comment ==
    LET comment == get_data(author.state_data, "TEACHER_ADD_COMMENT", "comment", <<>>)
        s == [author EXCEPT !.current_test.questions[LastQ].check_comment = comment]
    IN  /\ author.conv = "TEACHER_ADD_COMMENT"
        /\ Handled(IndexErrorOr(author,
                       IF Len(comment) = 0
                       THEN Reply(author, "enter_comment", "TEACHER_ADD_COMMENT")
                       ELSE finalize_question(s)))

show_question_list(s) ==
    IF Len(s.current_test.questions) = 0
    THEN Reply(s, "no_questions", "TEACHER_QUESTION_TYPE")
    ELSE Reply([s EXCEPT !.state_stack = push(@, "TEACHER_EDIT_QUESTIONS")],
               "question_list", "TEACHER_EDIT_QUESTIONS")

\* show_question_list bound to the edit_questions button of the
\* finalization menu
edit_questions_button ==
    /\ author.conv = "TEACHER_FINISH_CREATION"
    /\ Handled(show_question_list(author))

\* Python list indexing: a negative index counts from the end
ValidIndex(list, idx) == -Len(list) <= idx /\ idx < Len(list)

Position(list, idx) == IF idx >= 0 THEN idx + 1 ELSE Len(list) + idx + 1

select_question_to_edit ==
    \E idx \in 0..MaxQuestions :
        LET s == [author EXCEPT !.editing_question_idx = idx,
                                !.state_stack = push(@, "TEACHER_EDIT_QUESTION_PART")]
        IN  /\ author.conv = "TEACHER_EDIT_QUESTIONS"
            /\ Handled(IF ~(0 <= idx /\ idx < LastQ)
                       THEN Reply(author, "error", "TEACHER_EDIT_QUESTIONS")
                       ELSE Reply(s, "edit_question", "TEACHER_EDIT_QUESTION_PART"))

edit_question_part ==
    \E part \in EditParts :
        LET pre == [author EXCEPT !.editing_part = part]
            s == [pre EXCEPT !.state_stack = push(@, "TEACHER_EDIT_QUESTION_CONTENT")]
        IN  /\ author.conv = "TEACHER_EDIT_QUESTION_PART"
            /\ Handled(IF ~ValidIndex(author.current_test.questions, author.editing_question_idx)
                       THEN Raises(pre)
                       ELSE Reply(s, "edit_question_part", "TEACHER_EDIT_QUESTION_CONTENT"))

\* the question after save_edited_question stored new_value in the part
edited_question(question, part, new_value) ==
    CASE part = "options" ->
            [question EXCEPT !.options = Append(split_options(new_value),
                                                question.correct_answer)]
      [] part = "text" -> [question EXCEPT !.text = new_value]
      [] part = "correct" ->
            [question EXCEPT
                !.correct_answer = new_value,
                !.options = IF question.type = "test" /\ Len(question.options) > 0
                            THEN Append(SelectSeq(question.options,
                                                  LAMBDA opt : opt # new_value), new_value)
                            ELSE question.options]
      [] part = "comment" -> [question EXCEPT !.check_comment = new_value]
      [] OTHER -> question

save_edited_question ==
    \E text \in EditTexts :
        LET new_value == sanitize_input(text)
            questions == author.current_test.questions
            idx == author.editing_question_idx
            part == author.editing_part
            question == questions[Position(questions, idx)]
            s == [author EXCEPT !.current_test.questions[Position(questions, idx)] =
                                    edited_question(question, part, new_value)]
        IN  /\ author.conv = "TEACHER_EDIT_QUESTION_CONTENT"
            /\ Handled(IF ~ValidIndex(questions, idx) THEN Raises(author)
                       ELSE IF part = "options"
                               /\ ~validate_options(split_options(new_value),
                                                    question.correct_answer)
                       THEN Reply(author, "invalid_options", "TEACHER_EDIT_QUESTION_CONTENT")
                       ELSE show_question_list(s))

back_to_question_list ==
    /\ author.conv \in {"TEACHER_EDIT_QUESTION_PART", "TEACHER_EDIT_QUESTION_CONTENT"}
    /\ Handled(show_question_list([author EXCEPT !.state_stack = pop(@).stack]))

finish_creation ==
    /\ author.conv \in {"TEACHER_QUESTION_TYPE", "TEACHER_FINISH_CREATION", "TEACHER_EDIT_QUESTIONS"}
    /\ Handled(IF LastQ = 0
               THEN Reply(author, "no_questions", "TEACHER_QUESTION_TYPE")
               ELSE Reply([author EXCEPT !.state_stack = push(@, "TEACHER_GLOBAL_COMMENT")],
                          "global_comment", "TEACHER_GLOBAL_COMMENT"))

show_final_confirmation(s) ==
    Reply([s EXCEPT !.state_stack = IF current(@) # "TEACHER_FINAL_CONFIRM"
                                    THEN push(@, "TEACHER_FINAL_CONFIRM") ELSE @],
          "final_confirmation", "TEACHER_FINAL_CONFIRM")

\* show_final_confirmation bound to the back button of the three edit states
back_to_final_confirmation ==
    /\ author.conv \in {"TEACHER_EDIT_SUBJECT", "TEACHER_EDIT_CLASSES", "TEACHER_EDIT_GLOBAL_COMMENT"}
    /\ Handled(show_final_confirmation(author))

\* str.lower() on the letters of the texts used here
lower(text) ==
    [i \in 1..Len(text) |->
        CASE text[i] = "S" -> "s" [] text[i] = "K" -> "k" [] text[i] = "I" -> "i"
          [] text[i] = "P" -> "p" [] OTHER -> text[i]]

\* the body shared by process_global_comment and process_edit_global_comment
with_global_comment(s, text) ==
    LET user_input == sanitize_input(text)
        value == IF lower(user_input) = <<"/", "s", "k", "i", "p">> THEN <<>> ELSE user_input
    IN  [s EXCEPT !.current_test.global_comment = value,
                  !.state_data = set_data(@, "TEACHER_GLOBAL_COMMENT", "global_comment", value)]

process_global_comment ==
    \E text \in GlobalTexts :
        /\ author.conv = "TEACHER_GLOBAL_COMMENT"
        /\ Handled(show_final_confirmation(with_global_comment(author, text)))

move_forward_global_comment ==
    LET global_comment == get_data(author.state_data, "TEACHER_GLOBAL_COMMENT",
                                   "global_comment", <<>>)
    IN  /\ author.conv = "TEACHER_GLOBAL_COMMENT"
        /\ Handled(show_final_confirmation(
                       [author EXCEPT !.current_test.global_comment = global_comment]))

FinalEditButtons ==
    {"edit_name", "edit_subject", "edit_classes", "edit_questions", "edit_global_comment",
     "edit_0"}

handle_final_edit ==
    \E action \in FinalEditButtons :
        LET to(state, msg) == Reply([author EXCEPT !.state_stack = push(@, state)], msg, state)
        IN  /\ author.conv = "TEACHER_FINAL_CONFIRM"
            /\ Handled(CASE action = "edit_name" -> to("TEACHER_ENTER_NAME", "enter_name")
                  [] action = "edit_subject" -> to("TEACHER_EDIT_SUBJECT", "select_subject")
                  [] action = "edit_classes" -> to("TEACHER_EDIT_CLASSES", "select_class")
                  [] action = "edit_questions" -> show_question_list(author)
                  [] action = "edit_global_comment" ->
                        to("TEACHER_EDIT_GLOBAL_COMMENT", "global_comment")
                  [] OTHER -> [author EXCEPT !.conv = "TEACHER_FINAL_CONFIRM"])

process_edit_global_comment ==
    \E text \in GlobalTexts :
        /\ author.conv = "TEACHER_EDIT_GLOBAL_COMMENT"
        /\ Handled(show_final_confirmation(with_global_comment(author, text)))

move_forward_edit_global_comment ==
    /\ author.conv = "TEACHER_EDIT_GLOBAL_COMMENT"
    /\ Handled(show_final_confirmation(author))

process_edit_subject ==
    \E button \in Subjects :
        LET subject == sanitize_input(button)
            s == [author EXCEPT
                    !.state_data = set_data(@, "TEACHER_SELECT_SUBJECT", "subject", subject),
                    !.current_test.subject = subject]
        IN  /\ author.conv = "TEACHER_EDIT_SUBJECT"
            /\ Handled(show_final_confirmation(s))

process_edit_classes ==
    \E text \in ClassTexts :
        LET classes == split_strip(sanitize_input(text))
            s == [author EXCEPT
                    !.state_data = set_data(@, "TEACHER_SELECT_CLASS", "classes", classes),
                    !.current_test.classes = classes]
        IN  /\ author.conv = "TEACHER_EDIT_CLASSES"
            /\ Handled(IF ~validate_classes(classes)
                       THEN Reply(author, "invalid_class", "TEACHER_EDIT_CLASSES")
                       ELSE show_final_confirmation(s))

move_forward_edit_classes ==
    LET classes == get_data(author.state_data, "TEACHER_SELECT_CLASS", "classes", <<>>)
    IN  /\ author.conv = "TEACHER_EDIT_CLASSES"
        /\ Handled(IF Len(classes) = 0
                   THEN Reply(author, "invalid_class", "TEACHER_EDIT_CLASSES")
                   ELSE show_final_confirmation(author))

\* confirm_test: the draft gets an id and a timestamp, is validated and
\* handed to Database.save_test, whose closure the orchestrator runs while
\* the event loop thread waits in join(); the return value is not looked at
process_final_confirmation ==
    \E io \in IoOutcomes :
        LET current_test == [author.current_test EXCEPT !.id = next_uuid, !.created_at = clock]
            out == save_test_body(load_file(tests_file), current_test, next_uuid + 1, clock + 1)
            exc == IF io # "ok" THEN "OSError" ELSE None
            rejected == Reply([author EXCEPT !.current_test = current_test],
                              "error", "TEACHER_FINAL_CONFIRM")
            done == Reply(reset_state(author), "test_created", "END")
        IN  /\ author.conv = "TEACHER_FINAL_CONFIRM"
            /\ deployment = "bot"
            /\ IF ~validate_test(current_test)
               THEN /\ io = "ok"
                    /\ next_uuid < MaxRejectedUuid
                    /\ author' = rejected
                    /\ next_uuid' = next_uuid + 1
                    /\ UNCHANGED <<tests_file, clock, calls, logged, thread>>
               ELSE /\ calls < MaxCommits
                    /\ author' = done
                    /\ tests_file' = save_to_file(tests_file, out.data, io)
                    /\ next_uuid' = next_uuid + 2
                    /\ clock' = clock + 1
                    /\ calls' = calls + 1
                    /\ logged' = [logged EXCEPT !["loop"] = exc]
                    /\ thread' = [thread EXCEPT !["loop"] =
                                    [IdleThread EXCEPT !.op = "save_test",
                                                       !.ret = IF exc = None THEN out.ret
                                                               ELSE EmptyId]]
            /\ UNCHANGED <<results_file, deployment, write_queue, unfinished, worker, student, review, outbox, call>>

\* the /cancel fallback; the two states whose text handler also accepts
\* commands take "/cancel" as a comment instead
cancel_creation ==
    /\ author.conv \in AuthorStates \ {"TEACHER_GLOBAL_COMMENT", "TEACHER_EDIT_GLOBAL_COMMENT"}
    /\ Handled(Reply(reset_state(author), "canceled", "END"))

back_to_finalization ==
    /\ author.conv \in {"TEACHER_FINISH_CREATION", "TEACHER_EDIT_QUESTIONS", "TEACHER_GLOBAL_COMMENT", "TEACHER_FINAL_CONFIRM"}
    /\ Handled(Reply([author EXCEPT !.state_stack = push(pop(@).stack,
                                                         "TEACHER_FINISH_CREATION")],
                     "question_added", "TEACHER_FINISH_CREATION"))

back_to_teacher_main ==
    /\ author.conv = "TEACHER_SELECT_SUBJECT"
    /\ Handled(Reply(reset_state(author), "teacher_menu", "TEACHER_MAIN"))

InitAuthor ==
    /\ InitFiles
    /\ InitGateway
    /\ InitSessions
    /\ deployment = "bot"

NextAuthor ==
    \/ start_creation
    \/ process_subject
    \/ process_class
    \/ move_forward_class
    \/ back_to_subject_select
    \/ process_test_name
    \/ move_forward_name
    \/ back_to_class_input
    \/ process_question_type
    \/ back_to_test_name
    \/ process_question_text
    \/ move_forward_question
    \/ back_to_question_type_select
    \/ process_correct_answer
    \/ move_forward_correct_answer
    \/ back_to_question_text_input
    \/ process_options
    \/ move_forward_options
    \/ back_to_correct_answer_input
    \/ process_comment
    \/ move_forward_comment
    \/ edit_questions_button
    \/ select_question_to_edit
    \/ edit_question_part
    \/ save_edited_question
    \/ back_to_question_list
    \/ finish_creation
    \/ process_global_comment
    \/ move_forward_global_comment
    \/ handle_final_edit
    \/ process_edit_global_comment
    \/ move_forward_edit_global_comment
    \/ process_edit_subject
    \/ process_edit_classes
    \/ move_forward_edit_classes
    \/ back_to_final_confirmation
    \/ process_final_confirmation
    \/ cancel_creation
    \/ back_to_finalization
    \/ back_to_teacher_main

SpecAuthor == InitAuthor /\ [][NextAuthor]_vars

(***************************************************************************)
(* Properties of the authoring flow, checked under SpecAuthor.             *)
(***************************************************************************)
\* every test held by tests.json, whoever its teacher is
PersistedTests ==
    UNION {SeqToSet(load_file(tests_file)[e].tests) : e \in 1..Len(load_file(tests_file))}

WellFormedQuestion(q) ==
    /\ Len(q.text) > 0
    /\ q.type = "test" =>
        /\ Len(q.options) >= MinOptions
        /\ Len(q.options) <= MaxOptions
        /\ Cardinality(SeqToSet(q.options)) = Len(q.options)
        /\ q.correct_answer \in SeqToSet(q.options)

\* C2: whatever authoring actions led to the commit, every question of a
\* persisted test has a non-empty text, and every closed question has
\* between 2 and 7 pairwise-distinct options that include its correct
\* answer.
C2_PersistedQuestionsWellFormed ==
    \A test \in PersistedTests :
        \A i \in 1..Len(test.questions) : WellFormedQuestion(test.questions[i])

\* a step in which the flow hands the draft to Database.save_test
CommitStep == author.conv = "TEACHER_FINAL_CONFIRM" /\ calls' = calls + 1

\* C6: when the write of a commit fails, the flow neither shows the "test
\* created" message nor ends as completed; and the message is shown only
\* when the test is in the store.
C6_WriteFailureReachesFlow ==
    [][CommitStep =>
        /\ logged'["loop"] # None =>
                author'.shown # "test_created" /\ author'.conv # "END"
        /\ author'.shown = "test_created" =>
                \E test \in PersistedTests' : test.id = thread'["loop"].ret]_vars

(***************************************************************************)
(* student_do_test.py: the test-taking flow of one student.  A callback    *)
(* button of any message still in the chat can be pressed, so a handler    *)
(* can run whenever the conversation is in a state that registers it.      *)
(***************************************************************************)
StudentStates ==
    {"STUDENT_SELECT_SUBJECT", "STUDENT_SELECT_CLASS", "STUDENT_ENTER_TEST_NAME",
     "STUDENT_SELECT_TEST", "STUDENT_ENTER_INFO", "STUDENT_TEST_INSTRUCTIONS",
     "STUDENT_ANSWER_QUESTIONS", "STUDENT_REVIEW_ANSWERS", "STUDENT_APPEAL_SELECT",
     "STUDENT_APPEAL_COMMENT"}

\* what the student sends
StudentUser == "u1"
StudentClasses == {<<"5">>}
SearchTexts == {<<"n">>, <<"z">>}
TestButtons == {1}
InfoTexts == {<<"s">>}
OptionButtons == {0, 1}
\* edit_<i>: the buttons of the review of this test and, still in the chat,
\* one of the review of a longer test
EditButtons == {0, 1, 2}
AppealTexts == {<<"c">>}

\* the appeal window of start_appeal, in hours
AppealWindow == 24

\* how far one step of the wall clock moves it, in hours
TickHours == AppealWindow

\* a in b, for str
Contains(a, b) ==
    \E i \in 1..(Len(b) + 1) : i + Len(a) - 1 <= Len(b) /\ SubSeq(b, i, i + Len(a) - 1) = a

\* a handler of the test-taking flow returns, leaving the session as s
StudentHandled(s) ==
    /\ Len(s.state_stack) <= MaxStudentStack
    /\ student' = IF s.shown = "score_report" THEN s ELSE [s EXCEPT !.report = <<>>]
    /\ UNCHANGED <<dbvars, author, review, outbox, call>>

cancel_test(s) ==
    Reply([student_reset_state(s) EXCEPT !.state_stack = push(@, "STUDENT_MAIN")],
          "student_menu", "STUDENT_MAIN")

start_test_selection(s) ==
    Reply([student_reset_state(s) EXCEPT !.user_id = StudentUser,
                                         !.state_stack = push(@, "STUDENT_SELECT_SUBJECT")],
          "select_subject", "STUDENT_SELECT_SUBJECT")

\* the entry point, which allow_reentry keeps open in every state; the flow
\* is started over only while the stack holds at most MaxRestartDepth states
start_test_button ==
    /\ student.conv \in StudentStates \cup {"END", "STUDENT_MAIN"}
    /\ Len(student.state_stack) <= MaxRestartDepth
    /\ StudentHandled(start_test_selection(student))

student_process_subject ==
    \E subject \in Subjects :
        /\ student.conv = "STUDENT_SELECT_SUBJECT"
        /\ StudentHandled(Reply(
               [student EXCEPT !.state_data = set_data(@, "STUDENT_SELECT_SUBJECT", "subject", subject),
                               !.current_test = DictPut(@, "subject", subject),
                               !.state_stack = push(@, "STUDENT_SELECT_CLASS")],
               "select_class", "STUDENT_SELECT_CLASS"))

back_to_role_selection ==
    /\ student.conv = "STUDENT_SELECT_SUBJECT"
    /\ StudentHandled(Reply([student EXCEPT !.state_stack = push(@, "STUDENT_MAIN")],
                            "student_menu", "STUDENT_MAIN"))

student_process_class ==
    \E selected_class \in StudentClasses :
        /\ student.conv = "STUDENT_SELECT_CLASS"
        /\ StudentHandled(Reply(
               [student EXCEPT !.state_data = set_data(@, "STUDENT_SELECT_CLASS", "class", selected_class),
                               !.current_test = DictPut(@, "class", selected_class),
                               !.state_stack = push(@, "STUDENT_ENTER_TEST_NAME")],
               "enter_test_name", "STUDENT_ENTER_TEST_NAME"))

back_to_subject_selection ==
    /\ student.conv \in {"STUDENT_SELECT_CLASS", "STUDENT_ENTER_TEST_NAME"}
    /\ Len(pop(student.state_stack).stack) <= MaxRestartDepth
    /\ StudentHandled(start_test_selection(
           [student EXCEPT !.state_stack = pop(@).stack]))

\* the tests that match the name, subject and class the session holds
filtered_tests(s) ==
    LET test_name      == get_data(s.state_data, "STUDENT_ENTER_TEST_NAME", "test_name", <<>>)
        selected_class == get_data(s.state_data, "STUDENT_SELECT_CLASS", "class", <<>>)
        subject        == get_data(s.state_data, "STUDENT_SELECT_SUBJECT", "subject", <<>>)
        tests_data     == load_file(tests_file)
        tests          == FlattenSeq([u \in 1..Len(tests_data) |-> tests_data[u].tests])
    IN  {i \in 1..Len(tests) :
            /\ Len(tests[i].name) > 0
            /\ Contains(lower(test_name), lower(tests[i].name))
            /\ tests[i].subject = subject
            /\ selected_class \in SeqToSet(tests[i].classes)}

search_tests(s) ==
    IF filtered_tests(s) = {}
    THEN Reply(s, "tests_not_found", "STUDENT_ENTER_TEST_NAME")
    ELSE Reply([s EXCEPT !.state_stack = push(@, "STUDENT_SELECT_TEST")],
               "found_tests", "STUDENT_SELECT_TEST")

student_process_test_name ==
    \E text \in SearchTexts :
        LET test_name == strip(text)
        IN  /\ student.conv = "STUDENT_ENTER_TEST_NAME"
            /\ StudentHandled(
                   IF test_name = <<>>
                   THEN Reply(student, "empty_test_name", "STUDENT_ENTER_TEST_NAME")
                   ELSE search_tests([student EXCEPT !.state_data =
                            set_data(@, "STUDENT_ENTER_TEST_NAME", "test_name", test_name)]))

confirm_test_name ==
    /\ student.conv = "STUDENT_ENTER_TEST_NAME"
    /\ StudentHandled(
           IF get_data(student.state_data, "STUDENT_ENTER_TEST_NAME", "test_name", <<>>) = <<>>
           THEN Reply(student, "no_test_name", "STUDENT_ENTER_TEST_NAME")
           ELSE search_tests(student))

back_to_class_selection ==
    /\ student.conv = "STUDENT_ENTER_TEST_NAME"
    /\ StudentHandled(
           IF get_data(student.state_data, "STUDENT_SELECT_SUBJECT", "subject", <<>>) = <<>>
           THEN cancel_test(student)
           ELSE Reply([student EXCEPT !.state_stack = push(pop(@).stack, "STUDENT_SELECT_CLASS")],
                      "select_class", "STUDENT_SELECT_CLASS"))

student_select_test ==
    \E test_id \in TestButtons :
        /\ student.conv = "STUDENT_SELECT_TEST"
        /\ StudentHandled(
               IF load_test_by_id(load_file(tests_file), test_id) = <<>>
               THEN cancel_test(student)
               ELSE Reply([student EXCEPT !.current_test_id = test_id,
                                          !.state_stack = push(@, "STUDENT_ENTER_INFO")],
                          "enter_info", "STUDENT_ENTER_INFO"))

back_to_test_name_input ==
    /\ student.conv = "STUDENT_SELECT_TEST"
    /\ StudentHandled(Reply([student EXCEPT !.state_stack = push(pop(@).stack,
                                                                 "STUDENT_ENTER_TEST_NAME")],
                            "enter_test_name", "STUDENT_ENTER_TEST_NAME"))

process_student_info ==
    \E text \in InfoTexts :
        LET student_info == strip(text)
        IN  /\ student.conv = "STUDENT_ENTER_INFO"
            /\ StudentHandled(
                   IF student_info = <<>>
                   THEN Reply(student, "empty_info", "STUDENT_ENTER_INFO")
                   ELSE Reply([student EXCEPT
                                  !.state_data = set_data(@, "STUDENT_ENTER_INFO", "student_info",
                                                          student_info),
                                  !.student_info = student_info,
                                  !.state_stack = push(@, "STUDENT_TEST_INSTRUCTIONS")],
                              "instructions", "STUDENT_TEST_INSTRUCTIONS"))

back_to_test_selection ==
    /\ student.conv = "STUDENT_ENTER_INFO"
    /\ StudentHandled(
           IF filtered_tests(student) = {}
           THEN Reply([student EXCEPT !.state_stack = push(@, "STUDENT_ENTER_TEST_NAME")],
                      "tests_not_found", "STUDENT_ENTER_TEST_NAME")
           ELSE Reply([student EXCEPT !.state_stack = push(pop(@).stack, "STUDENT_SELECT_TEST")],
                      "found_tests", "STUDENT_SELECT_TEST"))

confirm_student_info ==
    /\ student.conv = "STUDENT_ENTER_INFO"
    /\ StudentHandled(
           IF get_data(student.state_data, "STUDENT_ENTER_INFO", "student_info", <<>>) = <<>>
           THEN Reply(student, "no_info", "STUDENT_ENTER_INFO")
           ELSE Reply([student EXCEPT !.state_stack = push(@, "STUDENT_TEST_INSTRUCTIONS")],
                      "instructions", "STUDENT_TEST_INSTRUCTIONS"))

back_to_student_info_input ==
    /\ student.conv = "STUDENT_TEST_INSTRUCTIONS"
    /\ StudentHandled(Reply([student EXCEPT !.state_stack = push(pop(@).stack,
                                                                 "STUDENT_ENTER_INFO")],
                            "enter_info", "STUDENT_ENTER_INFO"))

\* the test the session points at, as <<test>>, or <<>>
CurrentTest(s) == load_test_by_id(load_file(tests_file), s.current_test_id)

show_review(s) ==
    Reply([s EXCEPT !.state_stack = push(@, "STUDENT_REVIEW_ANSWERS")],
          "review", "STUDENT_REVIEW_ANSWERS")

show_question(s) ==
    IF s.current_question_idx >= Len(s.questions)
    THEN show_review(s)
    ELSE Reply([s EXCEPT !.state_stack = push(@, "STUDENT_ANSWER_QUESTIONS")],
               "question", "STUDENT_ANSWER_QUESTIONS")

start_test ==
    /\ student.conv = "STUDENT_TEST_INSTRUCTIONS"
    /\ StudentHandled(
           IF student.current_test_id = EmptyId \/ CurrentTest(student) = <<>>
           THEN cancel_test(student)
           ELSE show_question([student EXCEPT !.questions = CurrentTest(student)[1].questions,
                                              !.current_question_idx = 0,
                                              !.user_answers = EmptyDict]))

\* what process_answer and process_choice do to the session before the
\* next message is sent: user_answers[idx] = answer, and the index moves on
\* unless idx is the last one
record_answer(s, answer) ==
    LET idx == s.current_question_idx
        s1  == [s EXCEPT !.user_answers = DictPut(@, idx, answer),
                         !.state_data = set_data(@, "STUDENT_ANSWER_QUESTIONS",
                                                 <<"answer", idx>>, answer)]
    IN  IF idx < Len(s.questions) - 1
        THEN [s1 EXCEPT !.current_question_idx = idx + 1]
        ELSE s1

\* user_answers[idx] = answer, then the next question or the review
answered(s, answer) ==
    IF s.current_question_idx < Len(s.questions) - 1
    THEN show_question(record_answer(s, answer))
    ELSE show_review(record_answer(s, answer))

process_answer ==
    \E text \in AnswerTexts :
        /\ student.conv = "STUDENT_ANSWER_QUESTIONS"
        /\ StudentHandled(
               IF strip(text) = <<>>
               THEN Reply(student, "empty_answer", "STUDENT_ANSWER_QUESTIONS")
               ELSE answered(student, strip(text)))

process_choice ==
    \E option_idx \in OptionButtons :
        LET idx == student.current_question_idx
        IN  /\ student.conv = "STUDENT_ANSWER_QUESTIONS"
            /\ StudentHandled(
                   IF idx >= Len(student.questions)
                   THEN Raises(student)
                   ELSE IF option_idx >= Len(student.questions[idx + 1].options)
                   THEN Reply(student, "bad_option", "STUDENT_ANSWER_QUESTIONS")
                   ELSE answered(student, student.questions[idx + 1].options[option_idx + 1]))

navigate_questions ==
    \E action \in {"prev", "next", "review"} :
        LET current_idx == student.current_question_idx
            moved == IF action = "prev" /\ current_idx > 0 THEN current_idx - 1
                     ELSE IF action = "next" /\ current_idx < Len(student.questions) - 1
                     THEN current_idx + 1
                     ELSE current_idx
        IN  /\ student.conv = "STUDENT_ANSWER_QUESTIONS"
            /\ StudentHandled(
                   IF Len(student.questions) = 0
                   THEN Reply(student, "no_questions", "END")
                   ELSE IF action = "review" /\ moved = current_idx
                   THEN show_review(student)
                   ELSE show_question([student EXCEPT !.current_question_idx = moved]))

edit_answer ==
    \E question_idx \in EditButtons :
        /\ student.conv = "STUDENT_REVIEW_ANSWERS"
        /\ StudentHandled(show_question([student EXCEPT !.current_question_idx = question_idx]))

back_to_questions ==
    /\ student.conv = "STUDENT_REVIEW_ANSWERS"
    /\ StudentHandled(show_question([student EXCEPT !.current_question_idx = 0,
                                                    !.state_stack = pop(@).stack]))

(***************************************************************************)
(* student_do_test.py: the scoring engine.                                 *)
(***************************************************************************)
NotAnswered == <<"N", "o", "t", " ", "a", "n", "s", "w", "e", "r", "e", "d">>

\* difflib.SequenceMatcher: the number of matched characters, found by
\* taking the longest common block (the earliest in a, then in b) and
\* matching the pieces left and right of it in the same way
RECURSIVE matches(_, _)
matches(a, b) ==
    LET blocks == {x \in (1..Len(a)) \X (1..Len(b)) \X (1..Len(a)) :
                      /\ x[1] + x[3] - 1 <= Len(a)
                      /\ x[2] + x[3] - 1 <= Len(b)
                      /\ SubSeq(a, x[1], x[1] + x[3] - 1) = SubSeq(b, x[2], x[2] + x[3] - 1)}
    IN  IF blocks = {} THEN 0
        ELSE LET m == CHOOSE x \in blocks : \A y \in blocks :
                          \/ x[3] > y[3]
                          \/ x[3] = y[3] /\ x[1] < y[1]
                          \/ x[3] = y[3] /\ x[1] = y[1] /\ x[2] <= y[2]
             IN  m[3] + matches(SubSeq(a, 1, m[1] - 1), SubSeq(b, 1, m[2] - 1))
                      + matches(SubSeq(a, m[1] + m[3], Len(a)), SubSeq(b, m[2] + m[3], Len(b)))

\* int(ratio() * 10) clamped to 0..10, ratio() being 2.0 * matches / length
\* and 1.0 for two empty strings
check_open_answer(user_answer, correct_answer) ==
    LET a      == lower(user_answer)
        b      == lower(correct_answer)
        length == Len(a) + Len(b)
        score  == IF length = 0 THEN 10 ELSE (20 * matches(a, b)) \div length
    IN  IF score < 0 THEN 0 ELSE IF score > 10 THEN 10 ELSE score

\* the "scores" of _generate_score_report
generate_scores(test, user_answers) ==
    [idx \in 0..(Len(test.questions) - 1) |->
        LET question    == test.questions[idx + 1]
            user_answer == DictGet(user_answers, idx, NotAnswered)
        IN  IF question.type = "test"
            THEN IF user_answer = question.correct_answer THEN 10 ELSE 0
            ELSE IF user_answer = NotAnswered THEN 0
            ELSE check_open_answer(user_answer, question.correct_answer)]

\* the comment of _check_open_answer without its constant prefix, which
\* _generate_score_report removes again
check_open_comment_shifted(score) ==
    IF score >= 7 THEN "close"
    ELSE IF score >= 5 THEN "partial"
    ELSE IF score >= 2 THEN "some"
    ELSE "mismatch"

check_open_comment(score) ==
    IF score >= 8 THEN "close"
    ELSE IF score >= 5 THEN "partial"
    ELSE IF score >= 2 THEN "some"
    ELSE "mismatch"

\* what one question adds to total_score
added_always(question, user_answer) == 10

added_score(question, user_answer) ==
    IF question.type = "test"
    THEN IF user_answer = question.correct_answer THEN 10 ELSE 0
    ELSE IF user_answer = NotAnswered THEN 0
    ELSE check_open_answer(user_answer, question.correct_answer)

RECURSIVE total_score(_, _, _)
total_score(test, user_answers, n) ==
    IF n = 0 THEN 0
    ELSE total_score(test, user_answers, n - 1)
            + added_score(test.questions[n], DictGet(user_answers, n - 1, NotAnswered))

\* f"{percentage:.1f}" in tenths of a percent; total_score / max_score * 100
\* is never halfway between two tenths for fewer than 40 questions
percentage(total, max_score) ==
    IF max_score > 0 THEN (2000 * total + max_score) \div (2 * max_score) ELSE 0

\* scores, Comment_LLM and the numbers of the last line of report_text
generate_score_report(test, user_answers) ==
    LET n      == Len(test.questions)
        scores == generate_scores(test, user_answers)
        total  == total_score(test, user_answers, n)
        scored == {idx \in 0..(n - 1) :
                      /\ test.questions[idx + 1].type # "test"
                      /\ DictGet(user_answers, idx, NotAnswered) # NotAnswered}
    IN  [scores      |-> scores,
         Comment_LLM |-> [idx \in scored |-> check_open_comment(scores[idx])],
         total_score |-> total,
         max_score   |-> 10 * n,
         percentage  |-> percentage(total, 10 * n)]

(***************************************************************************)
(* student_do_test.py: finishing the test and appealing.  Database.        *)
(* save_result and save_appeal block the event loop thread until the       *)
(* orchestrator has run the closure, so the call is one step of the flow.  *)
(***************************************************************************)
\* the handler calls the gateway, whose closure comes to out and whose file
\* write comes to io, and returns leaving the session as s
StudentWrites(out, io, s) ==
    LET exc == IF out.exc # None THEN out.exc
               ELSE IF io # "ok" THEN "OSError" ELSE None
    IN  /\ calls < MaxCalls
        /\ Len(s.state_stack) <= MaxStudentStack
        /\ (out.exc # None => io = "ok")
        /\ results_file' = IF out.exc # None THEN results_file
                           ELSE save_to_file(results_file, out.data, io)
        /\ next_uuid' = IF out.exc = None /\ out.ret = next_uuid THEN next_uuid + 1
                        ELSE next_uuid
        /\ calls' = calls + 1
        /\ logged' = [logged EXCEPT !["loop"] = exc]
        /\ student' = IF s.shown = "score_report" THEN s ELSE [s EXCEPT !.report = <<>>]
        /\ UNCHANGED <<tests_file, clock, deployment, write_queue, unfinished, worker, thread,
                       author, review, outbox, call>>

finish_test ==
    \E io \in IoOutcomes :
        LET test == CurrentTest(student)
            result_data == ResultData(student.current_test_id, student.user_answers,
                                      generate_scores(test[1], student.user_answers), clock)
            out == save_result_body(load_file(results_file), student.user_id, result_data,
                                    next_uuid)
            result_id == IF io = "ok" THEN out.ret ELSE EmptyId
        IN  /\ student.conv = "STUDENT_REVIEW_ANSWERS"
            /\ IF test = <<>>
               THEN io = "ok" /\ StudentHandled(Raises(student))
               ELSE StudentWrites(out, io,
                        Reply([student EXCEPT !.test_completed_at = <<clock>>,
                                              !.current_result_id = <<result_id>>,
                                              !.report = generate_score_report(test[1], student.user_answers),
                                              !.state_stack = push(@, "STUDENT_APPEAL_SELECT")],
                              "score_report", "STUDENT_APPEAL_SELECT"))

back_to_final_results ==
    /\ student.conv = "STUDENT_APPEAL_SELECT"
    /\ StudentHandled(
           IF CurrentTest(student) = <<>>
           THEN Raises(student)
           ELSE Reply([student EXCEPT !.report = generate_score_report(CurrentTest(student)[1],
                                                                      student.user_answers),
                                      !.state_stack = push(pop(@).stack, "STUDENT_APPEAL_SELECT")],
                      "score_report", "STUDENT_APPEAL_SELECT"))

start_appeal ==
    /\ student.conv \in {"STUDENT_REVIEW_ANSWERS", "STUDENT_APPEAL_SELECT"}
    /\ StudentHandled(
           IF /\ student.test_completed_at # <<>>
              /\ clock - student.test_completed_at[1] > AppealWindow
           THEN Reply(student, "appeal_expired", "STUDENT_APPEAL_SELECT")
           ELSE Reply([student EXCEPT !.state_stack = push(@, "STUDENT_APPEAL_SELECT")],
                      "select_appeal_question", "STUDENT_APPEAL_SELECT"))

select_appeal_question ==
    \E question_idx \in QuestionIdx :
        /\ student.conv = "STUDENT_APPEAL_SELECT"
        /\ StudentHandled(Reply([student EXCEPT !.appeal_question_idx = question_idx,
                                                !.state_stack = push(@, "STUDENT_APPEAL_COMMENT")],
                                "enter_appeal_comment", "STUDENT_APPEAL_COMMENT"))

back_to_appeal_selection ==
    /\ student.conv = "STUDENT_APPEAL_COMMENT"
    /\ StudentHandled(Reply([student EXCEPT !.state_stack = push(pop(@).stack,
                                                                 "STUDENT_APPEAL_SELECT")],
                            "select_appeal_question", "STUDENT_APPEAL_SELECT"))

AppealLimit == 500

\* db.save_appeal with the comment, then the question list again; the
\* except branch around the call is never taken, as the orchestrator keeps
\* every exception to itself
submit_appeal(s, comment, io, msg) ==
    LET appeal_data == AppealData(s.appeal_question_idx, comment, clock)
        out == save_appeal_body(load_file(results_file), s.user_id, s.current_result_id[1],
                                appeal_data, next_uuid)
    IN  StudentWrites(out, io,
            Reply([s EXCEPT !.state_stack = push(@, "STUDENT_APPEAL_SELECT")],
                  msg, "STUDENT_APPEAL_SELECT"))

process_appeal_comment ==
    \E text \in AppealTexts, io \in IoOutcomes :
        LET comment == strip(SubSeq(text, 1, IF Len(text) < AppealLimit THEN Len(text)
                                             ELSE AppealLimit))
            question_idx == student.appeal_question_idx
        IN  /\ student.conv = "STUDENT_APPEAL_COMMENT"
            /\ IF comment = <<>>
               THEN io = "ok" /\ StudentHandled(Reply(student, "empty_comment",
                                                      "STUDENT_APPEAL_COMMENT"))
               ELSE IF student.current_result_id = <<>> \/ question_idx = -1
               THEN io = "ok" /\ StudentHandled(Raises(student))
               ELSE submit_appeal([student EXCEPT !.state_data =
                                      set_data(@, "STUDENT_APPEAL_COMMENT",
                                               <<"comment", question_idx>>, comment)],
                                  comment, io, "appeal_sent")

confirm_appeal_comment ==
    \E io \in IoOutcomes :
        LET question_idx == student.appeal_question_idx
            comment == get_data(student.state_data, "STUDENT_APPEAL_COMMENT",
                                <<"comment", question_idx>>, <<>>)
        IN  /\ student.conv = "STUDENT_APPEAL_COMMENT"
            /\ IF comment = <<>>
               THEN io = "ok" /\ StudentHandled(Reply(student, "no_comment",
                                                      "STUDENT_APPEAL_COMMENT"))
               ELSE IF student.current_result_id = <<>>
               THEN io = "ok" /\ StudentHandled(Raises(student))
               ELSE submit_appeal(student, comment, io, "appeal_confirmed")

\* the cancel button of the result screens and the /cancel fallback
cancel_test_update ==
    /\ student.conv \in StudentStates
    /\ StudentHandled(cancel_test(student))

\* the wall clock moves on; the flow up to the end of the test is followed
\* at clock values up to MaxStartClock
Tick ==
    /\ clock + TickHours <= MaxClock
    /\ student.test_completed_at # <<>> \/ clock + TickHours <= MaxStartClock
    /\ clock' = clock + TickHours
    /\ UNCHANGED <<tests_file, results_file, next_uuid, deployment, write_queue, unfinished,
                   worker, thread, calls, logged, sessions>>

InitStudent ==
    /\ InitFiles
    /\ InitGateway
    /\ InitSessions
    /\ deployment = "bot"

NextStudent ==
    \/ start_test_button
    \/ student_process_subject
    \/ back_to_role_selection
    \/ student_process_class
    \/ back_to_subject_selection
    \/ student_process_test_name
    \/ confirm_test_name
    \/ back_to_class_selection
    \/ student_select_test
    \/ back_to_test_name_input
    \/ process_student_info
    \/ back_to_test_selection
    \/ confirm_student_info
    \/ back_to_student_info_input
    \/ start_test
    \/ process_answer
    \/ process_choice
    \/ navigate_questions
    \/ edit_answer
    \/ back_to_questions
    \/ finish_test
    \/ back_to_final_results
    \/ start_appeal
    \/ select_appeal_question
    \/ back_to_appeal_selection
    \/ process_appeal_comment
    \/ confirm_appeal_comment
    \/ cancel_test_update
    \/ Tick

SpecStudent == InitStudent /\ [][NextStudent]_vars

(***************************************************************************)
(* Properties of the test-taking flow.                                     *)
(***************************************************************************)
\* an appeal comment is submitted: process_appeal_comment or
\* confirm_appeal_comment calls the gateway
AppealSubmission ==
    /\ student.conv = "STUDENT_APPEAL_COMMENT"
    /\ calls' = calls + 1

\* more than 24 hours have passed since test_completed_at
WindowClosed ==
    /\ student.test_completed_at # <<>>
    /\ clock - student.test_completed_at[1] > AppealWindow

\* C4: an appeal submitted at most 24 hours after test_completed_at is
\* stored (the write going through), and one submitted later is rejected
\* with nothing stored, on the typed path and on the confirmation path alike
C4_AppealWindowAtSubmission ==
    [][AppealSubmission =>
        /\ WindowClosed =>
              /\ results_file' = results_file
              /\ student'.shown \notin {"appeal_sent", "appeal_confirmed"}
        /\ (~WindowClosed /\ logged'["loop"] = None) =>
              \E i \in 1..Len(AppealsOf(load_file(results_file'), student.user_id,
                                        student.current_result_id[1])) :
                  LET a == AppealsOf(load_file(results_file'), student.user_id,
                                     student.current_result_id[1])[i]
                  IN  /\ a.question_idx = student.appeal_question_idx
                      /\ a.timestamp = clock]_vars

(***************************************************************************)
(* teacher_show_result.py: the review flow of one teacher.  A handler runs *)
(* whenever the conversation is in a state that registers it: the buttons  *)
(* of every earlier message stay in the chat.  The page counters and the   *)
(* texts of the messages are left out; `shown' lists the messages the last *)
(* handler sent.                                                           *)
(***************************************************************************)
ReviewStates ==
    {"TEACHER_CHECK_RESULTS", "TEACHER_CHECK_TEST", "TEACHER_CHECK_STUDENTS",
     "TEACHER_VIEW_STUDENT_QUESTIONS", "TEACHER_CHECK_QUESTIONS", "TEACHER_CHECK_ANSWERS",
     "TEACHER_EDIT_SCORE", "TEACHER_ADD_COMMENT", "TEACHER_CHECK_APPEALS",
     "TEACHER_RESPOND_APPEAL"}

ReviewTeacher == "t1"

\* the ids the buttons of the lists carry
ResultButtons == {3, 4}
AppealButtons == {5, 6}

\* what the teacher types as a score and as a comment
ScoreTexts == {<<"1", "0">>, <<"5">>, <<"1", "1">>, <<"x">>}
ReviewTexts == {<<"c", "<">>, <<" ">>}

PageButtons == {"question_prev", "question_next", "page"}

\* how many entries of the state stack are kept, how far question_next may
\* move current_question_idx, and how many times the flow writes results.json
MaxReviewStack == 2
MaxQuestionIdx == 2
MaxReviewWrites == 2

\* MAX_INPUT_LENGTH
InputLimit == 1000

\* teacher_show_result.sanitize_input: every character outside
\* [\w\s.,!?] is dropped, the text is cut, and ' '.join(split()) trims it
\* and collapses its blanks
review_sanitize_input(text) ==
    IF Len(text) = 0 THEN text
    ELSE LET kept == SelectSeq(text, LAMBDA c : c \notin {"<", ">", "|", "&", "/", "-"})
             cut  == SubSeq(kept, 1, IF Len(kept) < InputLimit THEN Len(kept) ELSE InputLimit)
         IN  collapse(strip(cut))

validate_comment(comment) == Len(strip(comment)) > 0

Digits == <<"0", "1", "2", "3", "4", "5", "6", "7", "8", "9">>

RECURSIVE DecimalValue(_)
DecimalValue(t) ==
    IF Len(t) = 0 THEN 0
    ELSE 10 * DecimalValue(SubSeq(t, 1, Len(t) - 1))
         + (CHOOSE d \in 1..10 : Digits[d] = t[Len(t)]) - 1

\* float(score_text) on the texts typed here (unsigned decimal integers and
\* non-numbers): <<value>>, or <<>> for the None of a ValueError.  No range
\* is checked.
validate_score(score_text) ==
    IF Len(score_text) > 0 /\ \A i \in 1..Len(score_text) : score_text[i] \in SeqToSet(Digits)
    THEN <<DecimalValue(score_text)>>
    ELSE <<>>

\* results.json as the review flow finds it.  u2's record carries the
\* user_id key of the Result data model (as the record of
\* Unit_Test/test_teacher_results_viewer.py:139 does) and an appeal on
\* question 0; u1 took test 1 twice and appealed question 0 of the second
\* attempt.
KeyedResult ==
    [StoredResult EXCEPT !.id = 4, !.user_id = "u2",
                         !.appeals = <<[AppealData(0, <<"c">>, 0) EXCEPT !.id = 6]>>]

SecondAttempt ==
    [StoredResult EXCEPT !.id = 3, !.appeals = <<[AppealData(0, <<"c">>, 0) EXCEPT !.id = 5]>>]

ReviewResults ==
    <<[key |-> "u2", tests |-> <<KeyedResult>>],
      [key |-> "u1", tests |-> <<StoredResult, SecondAttempt>>]>>

\* the session as a handler finds it, nothing sent yet
Begin == [review EXCEPT !.shown = <<>>]

\* a message is sent and the handler returns `state'
Show(s, msg, state) == [s EXCEPT !.shown = Append(@, msg), !.conv = state]

\* the topmost MaxReviewStack entries of a stack.  This flow only appends
\* to state_stack, reads its last entry (get_current) and empties it (clear);
\* pop is never called, so what lies deeper is never read.
Top(stack) ==
    IF Len(stack) <= MaxReviewStack THEN stack
    ELSE SubSeq(stack, Len(stack) - MaxReviewStack + 1, Len(stack))

\* ... after state_manager.push(context, state)
Pushed(s, msg, state) == Show([s EXCEPT !.state_stack = Top(push(@, state))], msg, state)

\* the handler raises: the wrapper logs and re-raises, the state stays
ReviewRaises(s) == [s EXCEPT !.shown = Append(@, "exception")]

ReviewTest(test_id) == load_test_by_id(load_file(tests_file), test_id)

\* results of a test among the loaded ones
ResultsOfTest(data, test_id) ==
    SelectSeq(load_all_results(data), LAMBDA r : r.test_id = test_id)

HasResult(data, result_id) ==
    \E i \in 1..Len(load_all_results(data)) : load_all_results(data)[i].id = result_id

start_check_results(s) ==
    IF TestsOf(load_file(tests_file), ReviewTeacher) = <<>>
    THEN Show(s, "no_tests", "TEACHER_CHECK_RESULTS")
    ELSE Pushed(s, "test_list", "TEACHER_CHECK_RESULTS")

\* test_id: the id of the button, or temp_test_id when called by exit_appeals
select_test(s, test_id) ==
    IF test_id = EmptyId
    THEN Show(s, "error_missing_data", "TEACHER_CHECK_RESULTS")
    ELSE LET s1 == [s EXCEPT !.current_test_id = test_id, !.pending_notifications = <<>>]
         IN  IF ReviewTest(test_id) = <<>>
             THEN Show(s1, "error_test_not_found", "TEACHER_CHECK_RESULTS")
             ELSE Pushed(s1, "test_info", "TEACHER_CHECK_TEST")

stats_students(s, data) ==
    IF ReviewTest(s.current_test_id) = <<>>
    THEN Show(s, "error_test_not_found", "TEACHER_CHECK_TEST")
    ELSE IF ResultsOfTest(data, s.current_test_id) = <<>>
    THEN Show(s, "no_results", "TEACHER_CHECK_TEST")
    ELSE Pushed(s, "students_stats", "TEACHER_CHECK_STUDENTS")

\* result_id: the id of the button, or current_result_id
view_student_questions(s, data, result_id) ==
    LET s1 == [s EXCEPT !.current_result_id = result_id]
    IN  IF ReviewTest(s.current_test_id) = <<>>
        THEN Show(s1, "error_test_not_found", "TEACHER_CHECK_STUDENTS")
        ELSE IF ~HasResult(data, result_id)
        THEN Show(s1, "error_result_not_found", "TEACHER_CHECK_STUDENTS")
        ELSE Pushed(s1, "student_question", "TEACHER_VIEW_STUDENT_QUESTIONS")

stats_questions(s) ==
    IF ReviewTest(s.current_test_id) = <<>>
    THEN Show(s, "error_test_not_found", "TEACHER_CHECK_TEST")
    ELSE Pushed(s, "questions_stats", "TEACHER_CHECK_QUESTIONS")

\* q_idx: the index of the button, or user_data.get("current_question_idx"),
\* which is None (-1) when the key is absent (-2); test["questions"][q_idx]
\* raises for None and for an index past the last question
view_question_answers(s, q_idx) ==
    LET q  == IF q_idx < 0 THEN -1 ELSE q_idx
        s1 == [s EXCEPT !.current_question_idx = q, !.current_result_id = EmptyId]
    IN  IF ReviewTest(s.current_test_id) = <<>>
        THEN Show(s1, "error_test_not_found", "TEACHER_CHECK_QUESTIONS")
        ELSE IF q < 0 \/ q >= Len(ReviewTest(s.current_test_id)[1].questions)
        THEN ReviewRaises(s1)
        ELSE Pushed(s1, "question_answers", "TEACHER_CHECK_ANSWERS")

review_back_to_questions(s) ==
    stats_questions([s EXCEPT !.current_question_idx = -1])

view_appeals(s, data) ==
    IF ReviewTest(s.current_test_id) = <<>>
    THEN Show(s, "error_test_not_found", "TEACHER_CHECK_TEST")
    ELSE IF SelectSeq(load_all_appeals(data), LAMBDA a : a.test_id = s.current_test_id) = <<>>
    THEN Show(s, "no_appeals", "TEACHER_CHECK_TEST")
    ELSE Pushed(s, "appeals_list", "TEACHER_CHECK_APPEALS")

\* return_state defaults to TEACHER_CHECK_ANSWERS when the key is absent
return_to_previous(s, data) ==
    LET return_state == IF s.return_state = None THEN "TEACHER_CHECK_ANSWERS" ELSE s.return_state
    IN  CASE return_state = "TEACHER_VIEW_STUDENT_QUESTIONS" ->
                view_student_questions(s, data, s.current_result_id)
          [] return_state = "TEACHER_CHECK_APPEALS" -> view_appeals(s, data)
          [] return_state = "TEACHER_CHECK_ANSWERS" ->
                view_question_answers(s, s.current_question_idx)
          [] OTHER -> review_back_to_questions(s)

\* a handler that writes nothing and sends nothing to a student
ReviewHandled(s) ==
    /\ review' = s
    /\ outbox' = <<>>
    /\ UNCHANGED <<dbvars, author, student, call>>

\* _add_change: the change joins test_changes[test_id] (change_id, which
\* nothing reads, is left out)
add_change(s, change) ==
    IF change.student_id = None THEN s
    ELSE [s EXCEPT !.test_changes =
                DictPut(@, change.test_id, Append(DictGet(@, change.test_id, <<>>), change))]

Change(type, student_id, test_id, q_idx, score, comment) ==
    [type |-> type, student_id |-> student_id, test_id |-> test_id,
     question_idx |-> q_idx + 1, score |-> score, comment |-> comment]

\* result.get("user_id"), else _get_user_id_by_result_id, which reads the
\* key the result is filed under; a change is added only on the second way
notify(s, data, result, change) ==
    IF result.user_id # None THEN s
    ELSE LET all == load_all_results(data)
             i   == FirstIndex(all, LAMBDA r : r.id = result.id)
         IN  IF i = 0 THEN s
             ELSE add_change(s, [change EXCEPT !.student_id = all[i].user_id])

\* a leaving handler that would skip the queue
flush_nothing(s) == [session |-> s, sending |-> <<>>]

\* the first lines of back_to_tests, back_to_main and exit_appeals: the
\* changes of the current test leave test_changes for
\* pending_notifications, which send_pending_notifications empties
flush(s) ==
    IF s.current_test_id # EmptyId /\ s.current_test_id \in DOMAIN s.test_changes
    THEN [session |-> [s EXCEPT !.test_changes = [k \in DOMAIN s.test_changes \ {s.current_test_id}
                                                      |-> s.test_changes[k]],
                                !.pending_notifications = <<>>],
          sending |-> s.pending_notifications \o s.test_changes[s.current_test_id]]
    ELSE [session |-> s, sending |-> <<>>]

\* send_pending_notifications: one context.bot.send_message call for each
\* notification in order; a call that raises is logged and the loop goes on
send_pending_notifications(sending, delivered) ==
    [i \in 1..Len(sending) |->
        [chat_id |-> sending[i].student_id, notification |-> sending[i],
         delivered |-> delivered[i]]]

\* a handler that leaves the test: s is the session after the flush
ReviewLeaves(sending, s) ==
    /\ \E delivered \in [1..Len(sending) -> BOOLEAN] :
            outbox' = send_pending_notifications(sending, delivered)
    /\ review' = s
    /\ UNCHANGED <<dbvars, author, student, call>>

\* a handler that called _save_to_file on results.json; raised tells
\* whether the OSError of the write reached it
ReviewWrites(file, raised, s) ==
    /\ calls < MaxReviewWrites
    /\ calls' = calls + 1
    /\ results_file' = file
    /\ review' = IF raised THEN ReviewRaises(Begin) ELSE s
    /\ outbox' = <<>>
    /\ UNCHANGED <<tests_file, next_uuid, clock, deployment, write_queue, unfinished, worker,
                   thread, logged, author, student, call>>

check_results_button ==
    /\ review.conv = "END"
    /\ ReviewHandled(start_check_results(Begin))

navigate_tests ==
    /\ review.conv = "TEACHER_CHECK_RESULTS"
    /\ ReviewHandled(start_check_results(Begin))

select_test_button ==
    /\ review.conv = "TEACHER_CHECK_RESULTS"
    /\ \E test_id \in TestButtons : ReviewHandled(select_test(Begin, test_id))

back_to_tests ==
    /\ review.conv = "TEACHER_CHECK_TEST"
    /\ ReviewLeaves(flush(Begin).sending,
                    start_check_results([flush(Begin).session EXCEPT !.current_test_id = EmptyId]))

back_to_main ==
    /\ review.conv = "TEACHER_CHECK_RESULTS"
    /\ ReviewLeaves(flush(Begin).sending,
                    Show([flush(Begin).session EXCEPT !.state_stack = <<>>], "teacher_menu", "END"))

exit_appeals ==
    /\ review.conv \in {"TEACHER_CHECK_STUDENTS", "TEACHER_CHECK_QUESTIONS", "TEACHER_CHECK_APPEALS"}
    /\ LET s == [flush(Begin).session EXCEPT !.temp_test_id = Begin.current_test_id]
       IN  ReviewLeaves(flush(Begin).sending, select_test(s, s.temp_test_id))

stats_students_button ==
    /\ review.conv = "TEACHER_CHECK_TEST"
    /\ ReviewHandled(stats_students(Begin, load_file(results_file)))

navigate_students ==
    /\ review.conv = "TEACHER_CHECK_STUDENTS"
    /\ ReviewHandled(stats_students(Begin, load_file(results_file)))

view_student_questions_button ==
    /\ review.conv = "TEACHER_CHECK_STUDENTS"
    /\ \E result_id \in ResultButtons :
            ReviewHandled(view_student_questions(Begin, load_file(results_file), result_id))

navigate_student_questions ==
    /\ review.conv = "TEACHER_VIEW_STUDENT_QUESTIONS"
    /\ ReviewHandled(view_student_questions(Begin, load_file(results_file),
                                            review.current_result_id))

back_to_students ==
    /\ review.conv = "TEACHER_VIEW_STUDENT_QUESTIONS"
    /\ ReviewHandled(stats_students([Begin EXCEPT !.current_result_id = EmptyId],
                                    load_file(results_file)))

stats_questions_button ==
    /\ review.conv = "TEACHER_CHECK_TEST"
    /\ ReviewHandled(stats_questions(Begin))

review_navigate_questions ==
    /\ review.conv = "TEACHER_CHECK_QUESTIONS"
    /\ ReviewHandled(stats_questions(Begin))

view_question_answers_button ==
    /\ review.conv = "TEACHER_CHECK_QUESTIONS"
    /\ \E q_idx \in QuestionIdx : ReviewHandled(view_question_answers(Begin, q_idx))

\* user_data.get("current_question_idx", 0): None - 1 raises when the key
\* holds None
navigate_answers ==
    /\ review.conv = "TEACHER_CHECK_ANSWERS"
    /\ \E action \in PageButtons :
         LET cur == review.current_question_idx
             q   == IF cur = -2 THEN 0 ELSE cur
         IN  IF action = "page"
             THEN ReviewHandled(view_question_answers(Begin, cur))
             ELSE IF cur = -1
             THEN ReviewHandled(ReviewRaises(Begin))
             ELSE IF action = "question_prev"
             THEN ReviewHandled(view_question_answers(Begin, IF q = 0 THEN 0 ELSE q - 1))
             ELSE /\ q < MaxQuestionIdx
                  /\ ReviewHandled(view_question_answers(Begin, q + 1))

back_to_questions_button ==
    /\ review.conv = "TEACHER_CHECK_ANSWERS"
    /\ ReviewHandled(review_back_to_questions(Begin))

return_to_previous_button ==
    /\ review.conv \in {"TEACHER_EDIT_SCORE", "TEACHER_ADD_COMMENT", "TEACHER_RESPOND_APPEAL"}
    /\ ReviewHandled(return_to_previous(Begin, load_file(results_file)))

\* edit_score and add_comment: the button names the result and the
\* question; return_state is the top of the stack
open_editor(result_id, q_idx, prompt, state) ==
    LET top == current(Begin.state_stack)
        s1  == [Begin EXCEPT !.current_result_id = result_id,
                             !.current_question_idx = q_idx,
                             !.return_state = IF top = None THEN "TEACHER_CHECK_ANSWERS" ELSE top]
    IN  IF ReviewTest(s1.current_test_id) = <<>>
        THEN ReviewHandled(Show(s1, "error_test_not_found", s1.return_state))
        ELSE IF ~HasResult(load_file(results_file), result_id)
        THEN ReviewHandled(Show(s1, "error_result_not_found", s1.return_state))
        ELSE ReviewHandled(Pushed(s1, prompt, state))

edit_score ==
    /\ review.conv \in {"TEACHER_VIEW_STUDENT_QUESTIONS", "TEACHER_CHECK_ANSWERS",
                        "TEACHER_CHECK_APPEALS"}
    /\ \E result_id \in ResultButtons, q_idx \in QuestionIdx :
            open_editor(result_id, q_idx, "edit_score_prompt", "TEACHER_EDIT_SCORE")

add_comment ==
    /\ review.conv \in {"TEACHER_VIEW_STUDENT_QUESTIONS", "TEACHER_CHECK_ANSWERS",
                        "TEACHER_CHECK_APPEALS"}
    /\ \E result_id \in ResultButtons, q_idx \in QuestionIdx :
            open_editor(result_id, q_idx, "add_comment_prompt", "TEACHER_ADD_COMMENT")

ReturnState(s, default) == IF s.return_state = None THEN default ELSE s.return_state

MissingData(s) ==
    s.current_result_id = EmptyId \/ s.current_question_idx < 0 \/ s.current_test_id = EmptyId

\* the write of save_score and save_comment and what follows it
SaveChange(s, new, result, change, saved) ==
    \E io \in IoOutcomes :
        ReviewWrites(save_to_file(results_file, new, io), io # "ok",
                     return_to_previous(Show(notify(s, new, result, change), saved, s.conv), new))

save_score_text(text) ==
    LET s     == Begin
        q_idx == s.current_question_idx
        score == validate_score(strip(text))
        data  == load_file(results_file)
        pos   == FirstResult(data, LAMBDA r : r.id = s.current_result_id)
    IN  IF MissingData(s)
        THEN ReviewHandled(Show(s, "error_missing_data", ReturnState(s, "TEACHER_CHECK_ANSWERS")))
        ELSE IF score = <<>>
        THEN ReviewHandled(Show(s, "error_invalid_score", "TEACHER_EDIT_SCORE"))
        ELSE IF pos[1] = 0
        THEN ReviewHandled(Show(s, "error_result_not_found",
                                ReturnState(s, "TEACHER_CHECK_ANSWERS")))
        ELSE LET result == data[pos[1]].tests[pos[2]]
             IN  IF DictGet(result.scores, q_idx, 0) = score[1]
                 THEN ReviewHandled(return_to_previous(Show(s, "score_saved", s.conv), data))
                 ELSE SaveChange(s, set_score(data, result.id, q_idx, score[1]), result,
                                 Change("score", None, s.current_test_id, q_idx, score[1],
                                        DictGet(result.comments, q_idx, <<>>)),
                                 "score_saved")

save_score ==
    /\ review.conv = "TEACHER_EDIT_SCORE"
    /\ \E text \in ScoreTexts : save_score_text(text)

save_comment_text(text) ==
    LET s       == Begin
        q_idx   == s.current_question_idx
        comment == review_sanitize_input(text)
        data    == load_file(results_file)
        pos     == FirstResult(data, LAMBDA r : r.id = s.current_result_id)
    IN  IF MissingData(s)
        THEN ReviewHandled(Show(s, "error_missing_data", ReturnState(s, "TEACHER_CHECK_ANSWERS")))
        ELSE IF ~validate_comment(comment)
        THEN ReviewHandled(Show(s, "error_empty_comment", "TEACHER_ADD_COMMENT"))
        ELSE IF pos[1] = 0
        THEN ReviewHandled(Show(s, "error_result_not_found",
                                ReturnState(s, "TEACHER_CHECK_ANSWERS")))
        ELSE LET result == data[pos[1]].tests[pos[2]]
             IN  IF DictGet(result.comments, q_idx, <<>>) = comment
                 THEN ReviewHandled(return_to_previous(Show(s, "comment_saved", s.conv), data))
                 ELSE SaveChange(s, set_comment(data, result.id, q_idx, comment), result,
                                 Change("comment", None, s.current_test_id, q_idx,
                                        DictGet(result.scores, q_idx, 0), comment),
                                 "comment_saved")

save_comment ==
    /\ review.conv = "TEACHER_ADD_COMMENT"
    /\ \E text \in ReviewTexts : save_comment_text(text)

view_appeals_button ==
    /\ review.conv = "TEACHER_CHECK_TEST"
    /\ ReviewHandled(view_appeals(Begin, load_file(results_file)))

navigate_appeals ==
    /\ review.conv = "TEACHER_CHECK_APPEALS"
    /\ ReviewHandled(view_appeals(Begin, load_file(results_file)))

start_appeal_response ==
    /\ review.conv \in {"TEACHER_VIEW_STUDENT_QUESTIONS", "TEACHER_CHECK_ANSWERS",
                        "TEACHER_CHECK_APPEALS"}
    /\ \E appeal_id \in AppealButtons :
         LET top == current(Begin.state_stack)
             s1  == [Begin EXCEPT !.current_appeal_id = appeal_id,
                                  !.return_state = IF top = None THEN "TEACHER_CHECK_APPEALS"
                                                   ELSE top]
             all == load_all_appeals(load_file(results_file))
         IN  IF \A i \in 1..Len(all) : all[i].id # appeal_id
             THEN ReviewHandled(Show(s1, "error_appeal_not_found", s1.return_state))
             ELSE ReviewHandled(Pushed(s1, "appeal_response_prompt", "TEACHER_RESPOND_APPEAL"))

\* the position, in a user's results, of the first result of the appeal's
\* test that answered the appealed question (0: none)
Examined(tests, appeal) ==
    FirstIndex(tests, LAMBDA t : t.test_id = appeal.test_id
                                 /\ appeal.question_idx \in DOMAIN t.answers)

\* the user at whose examined result the appeal already holds this comment
\* (0: none): the handler returns there
Unchanged(data, appeal, comment) ==
    FirstIndex([u \in 1..Len(data) |-> u],
               LAMBDA u : /\ Examined(data[u].tests, appeal) # 0
                          /\ \E k \in 1..Len(data[u].tests[Examined(data[u].tests, appeal)].appeals) :
                                LET a == data[u].tests[Examined(data[u].tests, appeal)].appeals[k]
                                IN  a.id = appeal.id /\ a.teacher_comment = comment)

\* the users for whom _save_to_file is called, in order: every user with an
\* examined result, up to the return
Writers(data, appeal, comment) ==
    SelectSeq([u \in 1..Len(data) |-> u],
              LAMBDA u : /\ Examined(data[u].tests, appeal) # 0
                         /\ Unchanged(data, appeal, comment) \in {0} \cup ((u + 1)..Len(data)))

\* results_data when the loop has passed the first n users
DataAt(data, appeal, comment, now, n) ==
    [u \in 1..Len(data) |->
        IF u <= n
        THEN set_appeal_response(data, appeal.id, appeal.test_id, appeal.question_idx,
                                 comment, now)[u]
        ELSE data[u]]

save_appeal_response_text(text) ==
    LET s       == Begin
        comment == review_sanitize_input(text)
        data    == load_file(results_file)
        all     == load_all_appeals(data)
        a       == FirstIndex(all, LAMBDA x : x.id = s.current_appeal_id)
    IN  IF s.current_appeal_id = EmptyId \/ s.current_test_id = EmptyId
        THEN ReviewHandled(Show(s, "error_missing_data", ReturnState(s, "TEACHER_CHECK_APPEALS")))
        ELSE IF ~validate_comment(comment)
        THEN ReviewHandled(Show(s, "error_empty_comment", "TEACHER_RESPOND_APPEAL"))
        ELSE IF a = 0
        THEN ReviewHandled(Show(s, "error_appeal_not_found",
                                ReturnState(s, "TEACHER_CHECK_APPEALS")))
        ELSE LET appeal  == all[a]
                 writers == Writers(data, appeal, comment)
                 last    == IF Len(writers) = 0 THEN 0 ELSE writers[Len(writers)]
                 new     == DataAt(data, appeal, comment, clock, last)
                 saved   == Show(s, "appeal_response_saved", s.conv)
                 after   ==
                     IF Unchanged(data, appeal, comment) # 0 \/ last = 0
                     THEN return_to_previous(saved, new)
                     ELSE LET result == new[last].tests[Examined(new[last].tests, appeal)]
                              change == Change("appeal", None, appeal.test_id,
                                               appeal.question_idx,
                                               DictGet(result.scores, appeal.question_idx, 0),
                                               comment)
                          IN  return_to_previous(
                                  Show(notify(s, new, result, change),
                                       "appeal_response_saved", s.conv), new)
             IN  IF last = 0
                 THEN ReviewHandled(after)
                 ELSE \/ ReviewWrites([valid |-> TRUE, data |-> new], FALSE, after)
                      \/ \E j \in 1..Len(writers), io \in {"fail_open", "fail_dump"} :
                           ReviewWrites(
                               IF io = "fail_dump" THEN TornFile
                               ELSE IF j = 1 THEN results_file
                               ELSE [valid |-> TRUE,
                                     data  |-> DataAt(data, appeal, comment, clock,
                                                      writers[j - 1])],
                               TRUE, after)

save_appeal_response ==
    /\ review.conv = "TEACHER_RESPOND_APPEAL"
    /\ \E text \in ReviewTexts : save_appeal_response_text(text)

\* the review happens after the results were stored
InitReview ==
    /\ tests_file = [valid |-> TRUE, data |-> StoredTests]
    /\ results_file = [valid |-> TRUE, data |-> ReviewResults]
    /\ next_uuid = 7
    /\ clock = 1
    /\ InitGateway
    /\ InitSessions
    /\ deployment = "bot"

NextReview ==
    \/ check_results_button
    \/ navigate_tests
    \/ select_test_button
    \/ back_to_tests
    \/ back_to_main
    \/ exit_appeals
    \/ stats_students_button
    \/ navigate_students
    \/ view_student_questions_button
    \/ navigate_student_questions
    \/ back_to_students
    \/ stats_questions_button
    \/ review_navigate_questions
    \/ view_question_answers_button
    \/ navigate_answers
    \/ back_to_questions_button
    \/ return_to_previous_button
    \/ edit_score
    \/ add_comment
    \/ save_score
    \/ save_comment
    \/ view_appeals_button
    \/ navigate_appeals
    \/ start_appeal_response
    \/ save_appeal_response

SpecReview == InitReview /\ [][NextReview]_vars

(***************************************************************************)
(* Properties of the review flow.                                          *)
(***************************************************************************)
\* save_score handles `text', a number, for a result it finds
ScoreSave(text) ==
    /\ review.conv = "TEACHER_EDIT_SCORE"
    /\ ~MissingData(review)
    /\ validate_score(strip(text)) # <<>>
    /\ HasResult(load_file(results_file), review.current_result_id)
    /\ save_score_text(text)

\* C7: saving a score equal to the stored one writes nothing and enqueues
\* nothing; saving a different one (the handler answering "score saved")
\* appends exactly one score notification for the student who owns the
\* result, the current test and the question to that test's queue, whether
\* or not the stored record carries user_id
C7_ScoreNotification ==
    [][\A text \in ScoreTexts : ScoreSave(text) =>
          LET data   == load_file(results_file)
              pos    == FirstResult(data, LAMBDA r : r.id = review.current_result_id)
              result == data[pos[1]].tests[pos[2]]
              q_idx  == review.current_question_idx
              tid    == review.current_test_id
              before == DictGet(review.test_changes, tid, <<>>)
              after  == DictGet(review'.test_changes, tid, <<>>)
          IN  IF DictGet(result.scores, q_idx, 0) = validate_score(strip(text))[1]
              THEN /\ results_file' = results_file
                   /\ review'.test_changes = review.test_changes
              ELSE "score_saved" \in SeqToSet(review'.shown) =>
                      /\ Len(after) = Len(before) + 1
                      /\ SubSeq(after, 1, Len(before)) = before
                      /\ after[Len(after)].type = "score"
                      /\ after[Len(after)].student_id = data[pos[1]].key
                      /\ after[Len(after)].test_id = tid
                      /\ after[Len(after)].question_idx = q_idx + 1
                      /\ \A k \in DOMAIN review'.test_changes \ {tid} :
                            /\ k \in DOMAIN review.test_changes
                            /\ review'.test_changes[k] = review.test_changes[k]]_vars

\* the teacher leaves the current test
Leave == back_to_tests \/ back_to_main \/ exit_appeals

C9_AppealResponseStored ==
    [][\A text \in ReviewTexts :
          (/\ review.conv = "TEACHER_RESPOND_APPEAL"
           /\ save_appeal_response_text(text)
           /\ "appeal_response_saved" \in SeqToSet(review'.shown)) =>
             LET comment == review_sanitize_input(text)
                 before  == load_all_appeals(load_file(results_file))
                 i       == FirstIndex(before, LAMBDA a : a.id = review.current_appeal_id)
                 after   == load_all_appeals(load_file(results_file'))
                 j       == FirstIndex(after, LAMBDA a : a.id = review.current_appeal_id)
             IN  (i # 0 /\ before[i].teacher_comment # comment) =>
                    /\ j # 0
                    /\ after[j].status = "responded"
                    /\ after[j].teacher_comment = comment
                    /\ after[j].response_timestamp = clock]_vars

\* C10: every per-question score of every stored result lies in 0..10
C10_ScoresInRange ==
    \A u \in 1..Len(load_file(results_file)) :
        \A i \in 1..Len(load_file(results_file)[u].tests) :
            \A q \in DOMAIN load_file(results_file)[u].tests[i].scores :
                load_file(results_file)[u].tests[i].scores[q] \in 0..10

(***************************************************************************)
(* student_do_test.py: _generate_score_report and _check_open_answer       *)
(* called on their own with a test and an answer dict.                     *)
(***************************************************************************)
\* the longest test the report is generated for
MaxScoredQuestions == 2

Skip == <<"s", "k", "i", "p">>

\* a closed question, a closed question whose correct option is the text
\* the report uses for a missing answer, and an open question
ScoredQuestions ==
    {Question("test", <<"q">>, <<"a">>, <<<<"b">>, <<"a">>>>),
     Question("test", <<"q">>, NotAnswered, <<NotAnswered, <<"a">>>>),
     Question("open", <<"q">>, Skip, <<>>)}

ScoredTests ==
    UNION {[1..n -> ScoredQuestions] : n \in 0..MaxScoredQuestions}

\* what a student can have recorded for one question
ScoredAnswers ==
    {<<"a">>, <<"b">>, <<"S", "K", "I", "P">>, <<"s", "k", "i", "p", "x">>,
     <<"s", "k", "i", "x">>, <<"s">>, <<"x">>, NotAnswered}

ScoredAnswerDicts ==
    UNION {[idxs -> ScoredAnswers] : idxs \in SUBSET (0..(MaxScoredQuestions - 1))}

InitScoring ==
    /\ InitFiles
    /\ InitGateway
    /\ author = IdleAuthor /\ student = IdleStudent /\ review = IdleReview /\ outbox = <<>>
    /\ deployment = "bot"
    /\ \E questions \in ScoredTests, user_answers \in ScoredAnswerDicts :
          call = [op |-> "_generate_score_report",
                  args |-> [test |-> [SampleTest("t1") EXCEPT !.questions = questions],
                            user_answers |-> user_answers],
                  returned |-> FALSE, ret |-> None]

score_report ==
    /\ ~call.returned
    /\ call' = [call EXCEPT !.returned = TRUE,
                            !.ret = generate_score_report(call.args.test, call.args.user_answers)]
    /\ UNCHANGED <<dbvars, author, student, review, outbox>>

NextScoring == score_report

SpecScoring == InitScoring /\ [][NextScoring]_vars

(***************************************************************************)
(* Properties of the scoring engine.                                       *)
(***************************************************************************)
Reported == call.op = "_generate_score_report" /\ call.returned

ScoredQuestion(idx) == call.args.test.questions[idx + 1]

ClosedIdx == {idx \in 0..(Len(call.args.test.questions) - 1) : ScoredQuestion(idx).type = "test"}

OpenIdx == {idx \in 0..(Len(call.args.test.questions) - 1) : ScoredQuestion(idx).type # "test"}

Recorded(idx) == idx \in DOMAIN call.args.user_answers

\* C11: a closed question scores 10 exactly when the answer the student
\* recorded for it equals its correct answer, and 0 otherwise, also when
\* the student recorded no answer for it
C11_ClosedScore ==
    Reported =>
        \A idx \in ClosedIdx :
            call.ret.scores[idx] =
                IF Recorded(idx) /\ call.args.user_answers[idx] = ScoredQuestion(idx).correct_answer
                THEN 10 ELSE 0

\* the questions handed to _check_open_answer: those with a model comment
Checked == DOMAIN call.ret.Comment_LLM

C13_UnansweredOpen ==
    Reported =>
        \A idx \in OpenIdx :
            IF Recorded(idx)
            THEN /\ idx \in Checked
                 /\ call.ret.scores[idx] =
                        check_open_answer(call.args.user_answers[idx],
                                          ScoredQuestion(idx).correct_answer)
            ELSE /\ idx \notin Checked
                 /\ call.ret.scores[idx] = 0

RECURSIVE SumTo(_, _)
SumTo(scores, n) == IF n = 0 THEN 0 ELSE SumTo(scores, n - 1) + scores[n - 1]

\* C14: the scores map has exactly one entry per question index 0..N-1, the
\* reported total is the sum of the entries, the reported maximum is 10 * N,
\* and the percentage is 0 when N is 0
C14_ReportTotals ==
    Reported =>
        LET n == Len(call.args.test.questions)
        IN  /\ DOMAIN call.ret.scores = 0..(n - 1)
            /\ call.ret.total_score = SumTo(call.ret.scores, n)
            /\ call.ret.max_score = 10 * n
            /\ n = 0 => call.ret.percentage = 0

\* a wrong closed answer and an open answer of score 8: 8 of 20, 40.0 %
C14_Witness ==
    /\ Reported
    /\ Len(call.args.test.questions) = 2
    /\ call.ret.scores = (0 :> 0 @@ 1 :> 8)
    /\ call.ret.total_score = 8
    /\ call.ret.max_score = 20
    /\ call.ret.percentage = 400

(***************************************************************************)
(* Properties of finishing an attempt.                                     *)
(***************************************************************************)
\* the stored results with that id
StoredWithId(file, id) ==
    {r \in SeqToSet(load_all_results(load_file(file))) : r.id = id}

Returns(t) == thread[t].pc = "join" /\ thread'[t].pc = "idle"

\* C16: when save_test, save_result or save_appeal returns to its caller the
\* caller's write has been applied to the store: a load issued afterwards
\* returns the record, and the id save_test or save_result returned is
\* non-empty and is the id the record is stored under
C16_WriteAppliedOnReturn ==
    [][\A t \in Threads :
          Returns(t) =>
              LET id == thread'[t].ret
              IN  CASE thread[t].op = "save_test" ->
                          /\ id # EmptyId
                          /\ \E test \in SeqToSet(TestsOf(load_file(tests_file'), thread[t].key)) :
                                test.id = id
                    [] thread[t].op = "save_result" ->
                          /\ id # EmptyId
                          /\ \E r \in StoredWithId(results_file', id) : r.user_id = thread[t].key
                    [] thread[t].op = "save_appeal" ->
                          AppealsOf(load_file(results_file'), thread[t].key, thread[t].rid) # <<>>]_vars

(***************************************************************************)
(* teacher_create.py: the methods of StateManager called on their own on   *)
(* the user_data of one session.  student_do_test.py holds the same class. *)
(***************************************************************************)
\* the deepest stack the calls build
MaxManagedStack == 3

ManagedStates == {"TEACHER_ENTER_QUESTION", "TEACHER_ENTER_CORRECT_ANSWER"}
ManagedKeys == {"question_text", "correct_answer"}
ManagedValues == {"What is 2+2?", "4"}

\* a method of StateManager, called on the user_data of a session that is
\* in no conversation, returns ret and leaves user_data as s
Called(op, args, ret, s) ==
    /\ call' = [op |-> op, args |-> args, returned |-> TRUE, ret |-> ret]
    /\ author' = s
    /\ UNCHANGED <<dbvars, student, review, outbox>>

StateManager_push ==
    /\ author.conv = "END"
    /\ Len(author.state_stack) < MaxManagedStack
    /\ \E state \in ManagedStates :
          Called("push", [state |-> state], None,
                 [author EXCEPT !.state_stack = push(@, state)])

StateManager_pop ==
    /\ author.conv = "END"
    /\ Called("pop", <<>>, pop(author.state_stack).ret,
              [author EXCEPT !.state_stack = pop(@).stack])

StateManager_set_data ==
    /\ author.conv = "END"
    /\ \E state \in ManagedStates, key \in ManagedKeys, value \in ManagedValues :
          Called("set_data", [state |-> state, key |-> key, value |-> value], None,
                 [author EXCEPT !.state_data = set_data(@, state, key, value)])

StateManager_get_data ==
    /\ author.conv = "END"
    /\ \E state \in ManagedStates, key \in ManagedKeys :
          Called("get_data", [state |-> state, key |-> key],
                 get_data(author.state_data, state, key, None), author)

StateManager_clear_state_data ==
    /\ author.conv = "END"
    /\ \E state \in ManagedStates :
          Called("clear_state_data", [state |-> state], None,
                 [author EXCEPT !.state_data = clear_state_data(@, state)])

InitStateManager ==
    /\ InitFiles
    /\ InitGateway
    /\ InitSessions
    /\ deployment = "bot"

NextStateManager ==
    \/ StateManager_push
    \/ StateManager_pop
    \/ StateManager_set_data
    \/ StateManager_get_data
    \/ StateManager_clear_state_data

SpecStateManager == InitStateManager /\ [][NextStateManager]_vars

(***************************************************************************)
(* Properties of StateManager.                                             *)
(***************************************************************************)
\* C17: the state stack is last-in-first-out: a pop() that follows a
\* push(s) returns s and leaves the stack as it was before the push, and
\* pop() on an empty stack returns no state and leaves the stack empty
C17_StackLifo ==
    [][/\ \A state \in ManagedStates :
             (call'.op = "push" /\ call'.args.state = state) =>
                 /\ pop(author'.state_stack).ret = state
                 /\ pop(author'.state_stack).stack = author.state_stack
       /\ call'.op = "pop" =>
             /\ call'.ret = pop(author.state_stack).ret
             /\ author'.state_stack = pop(author.state_stack).stack
             /\ author.state_stack # <<>> =>
                   /\ call'.ret = author.state_stack[Len(author.state_stack)]
                   /\ Append(author'.state_stack, call'.ret) = author.state_stack
             /\ author.state_stack = <<>> =>
                   /\ call'.ret = None
                   /\ author'.state_stack = <<>>]_vars

\* pop() has returned the state pushed last and two older states remain
C17_Witness ==
    /\ call.op = "pop"
    /\ call.ret = "TEACHER_ENTER_QUESTION"
    /\ author.state_stack = <<"TEACHER_ENTER_QUESTION", "TEACHER_ENTER_CORRECT_ANSWER">>

\* state_data[state][key] as a later get_data(state, key) returns it
Held(s, state, key) == get_data(s.state_data, state, key, None)

\* C18: per-state data is independent of the stack and of the data of other
\* states: set_data(s, k, v) makes get_data(s, k) return v, push and pop
\* change no data, so it still does after any sequence of them, and
\* clear_state_data(s) removes the data of s only, leaving the data of
\* every other state and the stack unchanged
C18_DataIndependent ==
    [][/\ call'.op = "set_data" =>
             /\ Held(author', call'.args.state, call'.args.key) = call'.args.value
             /\ \A state \in ManagedStates \ {call'.args.state}, key \in ManagedKeys :
                   Held(author', state, key) = Held(author, state, key)
             /\ author'.state_stack = author.state_stack
       /\ call'.op \in {"push", "pop"} =>
             \A state \in ManagedStates, key \in ManagedKeys :
                 Held(author', state, key) = Held(author, state, key)
       /\ call'.op = "get_data" =>
             /\ call'.ret = Held(author, call'.args.state, call'.args.key)
             /\ author' = author
       /\ call'.op = "clear_state_data" =>
             /\ \A key \in ManagedKeys : Held(author', call'.args.state, key) = None
             /\ \A state \in ManagedStates \ {call'.args.state}, key \in ManagedKeys :
                   Held(author', state, key) = Held(author, state, key)
             /\ author'.state_stack = author.state_stack]_vars

\* the data of one state was cleared while the other state keeps its data
\* and the stack holds both states
C18_Witness ==
    /\ call.op = "clear_state_data"
    /\ call.args.state = "TEACHER_ENTER_QUESTION"
    /\ Held(author, "TEACHER_ENTER_QUESTION", "question_text") = None
    /\ Held(author, "TEACHER_ENTER_CORRECT_ANSWER", "correct_answer") = "4"
    /\ author.state_stack = <<"TEACHER_ENTER_QUESTION", "TEACHER_ENTER_CORRECT_ANSWER">>

(***************************************************************************)
(* teacher_create.py: TeacherTestValidator.validate_options called on its  *)
(* own with a list of distractors and a correct answer.                    *)
(***************************************************************************)
\* the longest list of distinct distractors handed to the validator
MaxDistractors == 7

\* the text "a" * n
OptionText(n) == [i \in 1..n |-> "a"]

\* n distinct distractors, none of them the text "a"
DistinctOptions(n) == [i \in 1..n |-> OptionText(i + 1)]

CorrectAnswers == {OptionText(1), OptionText(2), OptionText(MaxDistractors + 2)}

OptionLists ==
    {DistinctOptions(n) : n \in 0..MaxDistractors}
        \cup {Append(DistinctOptions(n), OptionText(n + 1)) : n \in 1..(MaxDistractors - 1)}
        \cup [1..2 -> CorrectAnswers]

InitValidator ==
    /\ InitFiles
    /\ InitGateway
    /\ author = IdleAuthor /\ student = IdleStudent /\ review = IdleReview /\ outbox = <<>>
    /\ deployment = "bot"
    /\ \E options \in OptionLists, correct_answer \in CorrectAnswers :
          call = [op |-> "validate_options",
                  args |-> [options |-> options, correct_answer |-> correct_answer],
                  returned |-> FALSE, ret |-> None]

validate_options_call ==
    /\ ~call.returned
    /\ call' = [call EXCEPT !.returned = TRUE,
                            !.ret = validate_options(call.args.options, call.args.correct_answer)]
    /\ UNCHANGED <<dbvars, author, student, review, outbox>>

NextValidator == validate_options_call

SpecValidator == InitValidator /\ [][NextValidator]_vars

(***************************************************************************)
(* Properties of the options validator.                                    *)
(***************************************************************************)
Validated == call.op = "validate_options" /\ call.returned

\* C19: the options validator accepts a list of distractors with a correct
\* answer exactly when the distractors and the correct answer together are
\* between 2 and 7 entries and pairwise distinct
C19_OptionsAccepted ==
    Validated =>
        LET options == call.args.options
            n       == Len(options)
        IN  call.ret <=>
                /\ n + 1 >= 2
                /\ n + 1 <= 7
                /\ \A i \in 1..n : options[i] # call.args.correct_answer
                /\ \A i, j \in 1..n : i # j => options[i] # options[j]

\* six distinct distractors and a seventh, different, correct answer were
\* accepted
C19_Witness ==
    /\ Validated
    /\ Len(call.args.options) = 6
    /\ call.ret

(***************************************************************************)
(* Properties of confirming a draft.                                       *)
(***************************************************************************)
\* subject, classes, name, at least one question and teacher_id are present
DraftComplete(test) ==
    /\ test.subject # <<>>
    /\ test.classes # <<>>
    /\ test.name # <<>>
    /\ test.questions # <<>>
    /\ test.teacher_id # None

\* C20: confirming a draft in the final confirmation persists it only if
\* subject, classes, name, at least one question and teacher_id are all
\* present; otherwise nothing is written to the store, an error is shown
\* and the flow stays in the final confirmation
C20_IncompleteDraftRejected ==
    [][process_final_confirmation =>
          /\ tests_file' # tests_file => DraftComplete(author.current_test)
          /\ ~DraftComplete(author.current_test) =>
                /\ tests_file' = tests_file
                /\ results_file' = results_file
                /\ author'.shown = "error"
                /\ author'.conv = "TEACHER_FINAL_CONFIRM"]_vars

\* a draft whose name was sanitized to the empty text was confirmed and
\* rejected
C20_Witness ==
    /\ author.conv = "TEACHER_FINAL_CONFIRM"
    /\ author.shown = "error"
    /\ author.current_test.id # EmptyId
    /\ author.current_test.name = <<>>
    /\ author.current_test.questions # <<>>
    /\ tests_file = [valid |-> TRUE, data |-> StoredTests]

(***************************************************************************)
(* Properties of navigation in the authoring flow.                         *)
(***************************************************************************)
FinalConfirm == "TEACHER_FINAL_CONFIRM"

QuestionEditStates ==
    {"TEACHER_EDIT_QUESTIONS", "TEACHER_EDIT_QUESTION_PART", "TEACHER_EDIT_QUESTION_CONTENT"}

\* the conversation is in an edit state that handle_final_edit entered from
\* the final confirmation: the stack holds the final confirmation right
\* below the states of the edit
EditFromFinal(states) ==
    /\ author.conv \in states
    /\ \E i \in 1..Len(author.state_stack) :
          /\ author.state_stack[i] = FinalConfirm
          /\ i < Len(author.state_stack)
          /\ \A j \in (i + 1)..Len(author.state_stack) : author.state_stack[j] \in states

\* an edit entered from the final confirmation is completed with valid input
EditCompleted ==
    \/ process_test_name /\ EditFromFinal({"TEACHER_ENTER_NAME"})
                         /\ author'.shown # "invalid_name"
    \/ process_edit_subject /\ EditFromFinal({"TEACHER_EDIT_SUBJECT"})
    \/ process_edit_classes /\ EditFromFinal({"TEACHER_EDIT_CLASSES"})
                            /\ author'.shown # "invalid_class"
    \/ save_edited_question /\ EditFromFinal(QuestionEditStates)
                            /\ author'.shown \notin {"invalid_options", "exception"}
    \/ process_edit_global_comment /\ EditFromFinal({"TEACHER_EDIT_GLOBAL_COMMENT"})

\* C21: after an edit started from the final confirmation (name, subject,
\* classes, questions or global comment) is completed with valid input the
\* flow is in the final confirmation again, and the final confirmation is
\* not pushed onto the state stack when it is already the top
C21_EditReturnsToFinalConfirm ==
    [][/\ EditCompleted => author'.conv = FinalConfirm
       /\ (/\ author'.shown = "final_confirmation"
           /\ current(author.state_stack) = FinalConfirm)
             => author'.state_stack = author.state_stack]_vars

\* ---------------------------------------------------------------------------
\* going back in the authoring flow

\* the handlers that return to a step where a value is typed
BackTransition ==
    \/ back_to_subject_select
    \/ back_to_class_input
    \/ back_to_test_name
    \/ back_to_question_text_input
    \/ back_to_correct_answer_input

\* what the step of that state presents as "entered before": the handlers
\* read it with get_data(state, key, "") and present nothing when it is empty
Offered(s, state, key) == get_data(s.state_data, state, key, <<>>)

StudentBack ==
    \/ back_to_role_selection
    \/ back_to_subject_selection
    \/ back_to_class_selection
    \/ back_to_test_name_input
    \/ back_to_test_selection
    \/ back_to_student_info_input
    \/ back_to_questions
    \/ back_to_final_results
    \/ back_to_appeal_selection

\* state_data[state], the values saved for one step
StepData(s, state) == DictGet(s.state_data, state, EmptyDict)

\* C23: in the test-taking flow a back transition that does not cancel the
\* attempt never clears the data saved for the steps other than the one it
\* returns to (class, test name, student info), and the data of a step is
\* cleared only by a cancel (which ends in the student menu) or by starting
\* the flow again from the menu.
C23_BackKeepsOtherSteps ==
    [][/\ (StudentBack /\ student'.conv # "STUDENT_MAIN") =>
             \A st \in StudentStates \ {student'.conv} :
                 StepData(student', st) = StepData(student, st)
       /\ (\E st \in StudentStates : /\ StepData(student, st) # EmptyDict
                                     /\ StepData(student', st) = EmptyDict)
             => student'.conv = "STUDENT_MAIN" \/ start_test_button]_vars

\* ---------------------------------------------------------------------------
\* cancelling the attempt

\* the steps in which cancel_test ran: the cancel update itself and the
\* handlers that cancel when what they need is missing
Cancelled ==
    \/ cancel_test_update
    \/ (back_to_class_selection \/ student_select_test \/ start_test)
          /\ student'.conv = "STUDENT_MAIN"

\* no selected test, no answers and no per-state data are left
AttemptCleared(s) ==
    /\ s.current_test = EmptyDict
    /\ s.current_test_id = EmptyId
    /\ s.user_answers = EmptyDict
    /\ s.current_question_idx = 0
    /\ s.state_data = EmptyDict

\* C24: after a cancel from any state of the test-taking flow the flow is in
\* StudentMain, no selected test, answers or per-state data of the attempt
\* remain, and the state stack holds StudentMain and nothing from before the
\* cancel.
C24_CancelResetsSession ==
    [][Cancelled => /\ student'.conv = "STUDENT_MAIN"
                    /\ AttemptCleared(student')
                    /\ student'.state_stack = <<"STUDENT_MAIN">>]_vars

\* ---------------------------------------------------------------------------
\* returning from an edit in the review flow

EntryStates == {"TEACHER_VIEW_STUDENT_QUESTIONS", "TEACHER_CHECK_ANSWERS", "TEACHER_CHECK_APPEALS"}

EditorStates == {"TEACHER_EDIT_SCORE", "TEACHER_ADD_COMMENT", "TEACHER_RESPOND_APPEAL"}

\* the handler of this step sent one of these messages
Sent(msgs) == \E i \in 1..Len(review'.shown) : review'.shown[i] \in msgs

\* C25: the state from which a score edit, a comment edit or an appeal
\* response is entered is recorded when the editor opens, the record is kept
\* while the editor is open, and once the edit is saved the review flow is
\* in exactly that state.
C25_SaveReturnsToEntryState ==
    [][/\ Sent({"edit_score_prompt", "add_comment_prompt", "appeal_response_prompt"}) =>
            /\ review.conv \in EntryStates
            /\ review'.conv \in EditorStates
            /\ review'.return_state = review.conv
       /\ review.conv \in EditorStates => review'.return_state = review.return_state
       /\ Sent({"score_saved", "comment_saved", "appeal_response_saved"}) =>
            /\ review.conv \in EditorStates
            /\ review'.conv = review.return_state]_vars

\* ---------------------------------------------------------------------------
\* the question index of an attempt

InAttempt == student.conv \in {"STUDENT_ANSWER_QUESTIONS", "STUDENT_REVIEW_ANSWERS"}

\* 0..N-1 for a test of N questions
ValidIdx(questions) == 0..(Len(questions) - 1)

\* every key of the answers of every stored result is an index of a question
\* of the test the result refers to
StoredAnswersValid ==
    \A u \in 1..Len(load_file(results_file)) :
        \A i \in 1..Len(load_file(results_file)[u].tests) :
            LET result == load_file(results_file)[u].tests[i]
                test   == load_test_by_id(load_file(tests_file), result.test_id)
            IN  /\ test # <<>>
                /\ DOMAIN result.answers \subseteq ValidIdx(test[1].questions)

\* C26: while an attempt is being answered or reviewed, the current question
\* index is within 0..N-1 whatever prev, next, answer and edit-answer inputs
\* came, the answers given so far have valid indices as keys, and so has
\* every stored result.
C26_QuestionIndexInRange ==
    /\ InAttempt => /\ student.current_question_idx \in ValidIdx(student.questions)
                    /\ DOMAIN student.user_answers \subseteq ValidIdx(student.questions)
    /\ StoredAnswersValid

(***************************************************************************)
(* student_do_test.py, teacher_create.py: network_retry around the         *)
(* handlers and around safe_edit_message, while one update is handled.     *)
(***************************************************************************)
\* stop_after_attempt(3)
RetryAttempts == 3

\* how many calls of edit_message_text in a row the fault lasts
MaxFailures == 27

RetryFlows == {"student", "author"}

Faults == {"NetworkError", "TimedOut", "not_modified", "BadRequest"}

\* the decorated functions a handler runs through down to the one that
\* calls query.edit_message_text or message.reply_text
Chain(op) ==
    CASE op = "process_subject" -> <<"process_subject", "safe_edit_message">>
      [] op = "start_creation" -> <<"start_creation", "safe_edit_message">>
      [] op = "back_to_subject_selection" ->
            <<"back_to_subject_selection", "start_test_selection", "safe_edit_message">>
      [] op = "process_question_type" -> <<"process_question_type", "safe_edit_message">>
      [] op = "process_answer" -> <<"process_answer", "show_question", "safe_reply_text">>
\* (show_review, decorated as well, takes the place of show_question after
\* the answer to the last question)

RetryHandlers(flow) ==
    IF flow = "student" THEN {"process_subject", "back_to_subject_selection", "process_answer"}
    ELSE {"start_creation", "process_question_type"}

\* the handlers whose changes of the session are followed: the button or
\* the text of the update
RetryInputs(op) ==
    IF op = "process_question_type" THEN QuestionTypes
    ELSE IF op = "process_answer" THEN {<<"a">>}
    ELSE {None}

\* a teacher who has entered subject, class and name and is asked for the
\* type of the first question
TypingAuthor ==
    [conv |-> "TEACHER_QUESTION_TYPE",
     state_stack |-> <<"TEACHER_SELECT_SUBJECT", "TEACHER_SELECT_CLASS", "TEACHER_ENTER_NAME",
                       "TEACHER_QUESTION_TYPE">>,
     state_data |-> set_data(set_data(set_data(EmptyDict,
                        "TEACHER_SELECT_SUBJECT", "subject", <<"m">>),
                        "TEACHER_SELECT_CLASS", "classes", <<<<"5">>>>),
                        "TEACHER_ENTER_NAME", "name", <<"n">>),
     current_test |-> [EmptyTest EXCEPT !.subject = <<"m">>, !.classes = <<<<"5">>>>,
                                        !.name = <<"n">>, !.teacher_id = "t1"],
     editing_question_idx |-> -1, editing_part |-> None, shown |-> "select_question_type"]

\* a student who has started the stored test and is shown its first question
AnsweringStudent ==
    [IdleStudent EXCEPT
        !.user_id = "u1", !.questions = SampleQuestions, !.conv = "STUDENT_ANSWER_QUESTIONS",
        !.state_stack = <<"STUDENT_SELECT_SUBJECT", "STUDENT_SELECT_CLASS",
                          "STUDENT_ENTER_TEST_NAME", "STUDENT_SELECT_TEST", "STUDENT_ENTER_INFO",
                          "STUDENT_TEST_INSTRUCTIONS", "STUDENT_ANSWER_QUESTIONS">>,
        !.state_data = set_data(set_data(set_data(set_data(EmptyDict,
                           "STUDENT_SELECT_SUBJECT", "subject", <<"m">>),
                           "STUDENT_SELECT_CLASS", "class", <<"5">>),
                           "STUDENT_ENTER_TEST_NAME", "test_name", <<"n">>),
                           "STUDENT_ENTER_INFO", "student_info", <<"s">>),
        !.current_test = DictPut(DictPut(EmptyDict, "subject", <<"m">>), "class", <<"5">>),
        !.shown = "question", !.current_test_id = 1, !.student_info = <<"s">>]

\* the except clauses of wrapper: "raise" when the exception leaves the
\* wrapper, "return" when it is swallowed and the wrapper returns None
network_retry(flow, exception) ==
    IF exception \in {"NetworkError", "TimedOut"} THEN "raise"
    ELSE IF exception = "not_modified" THEN "return"
    ELSE IF exception = "BadRequest" THEN (IF flow = "student" THEN "raise" ELSE "return")
    ELSE "raise"

\* retry(stop=stop_after_attempt(3), wait=wait_fixed(1)) with the default
\* retry condition (any exception) and reraise=False.  attempt[k] counts the
\* runs of the k-th function of the chain; the exception is raised in the
\* innermost one.  The result is the attempts after the exception was dealt
\* with: a function runs again, or returned (swallowed), or RetryError left
\* the handler
RECURSIVE Unwind(_, _, _)
Unwind(flow, attempt, exception) ==
    LET k == Len(attempt)
    IN  IF k = 0 THEN [attempt |-> <<>>, outcome |-> "RetryError"]
        ELSE IF network_retry(flow, exception) = "return"
        THEN [attempt |-> SubSeq(attempt, 1, k - 1), outcome |-> "returned"]
        ELSE IF attempt[k] < RetryAttempts
        THEN [attempt |-> [attempt EXCEPT ![k] = @ + 1], outcome |-> "retry"]
        ELSE Unwind(flow, SubSeq(attempt, 1, k - 1), "RetryError")

InitRetry ==
    /\ InitFiles
    /\ InitGateway
    /\ review = IdleReview /\ outbox = <<>>
    /\ deployment = "bot"
    /\ \E flow \in RetryFlows, fault \in Faults, failures \in 0..MaxFailures,
          unchanged \in BOOLEAN :
          \E op \in RetryHandlers(flow) :
             \E input \in RetryInputs(op) :
                /\ (Chain(op)[Len(Chain(op))] = "safe_reply_text" => ~unchanged)
                /\ call = [op |-> op,
                           args |-> [flow |-> flow, fault |-> fault, failures |-> failures,
                                     unchanged |-> unchanged, input |-> input],
                           attempt |-> <<1>>, sent |-> 0, shows |-> None,
                           returned |-> FALSE, ret |-> None]
                /\ author = IF op = "process_question_type" THEN TypingAuthor ELSE IdleAuthor
                /\ student = IF op = "process_answer" THEN AnsweringStudent ELSE IdleStudent

Retrying ==
    call.op \in {"process_subject", "start_creation", "back_to_subject_selection",
                 "process_question_type", "process_answer"}

Innermost == Len(call.attempt) = Len(Chain(call.op))

\* the handler returns its state to the ConversationHandler
HandlerReturns == [call EXCEPT !.attempt = <<>>, !.returned = TRUE, !.ret = "state"]

\* the session after the message was delivered, or the error swallowed, and
\* the handler returned
Delivered ==
    /\ author' = IF call.op = "process_question_type"
                 THEN Reply(author, "enter_question", "TEACHER_ENTER_QUESTION")
                 ELSE author
    /\ student' = IF call.op # "process_answer" THEN student
                  ELSE IF call.shows = "review" THEN show_review(student)
                  ELSE show_question(student)
    /\ UNCHANGED <<dbvars, review, outbox>>

\* a decorated function runs up to its call of the next decorated function
\* of the chain; a handler that runs, for the first time or again, makes its
\* changes of the session on the way
call_decorated ==
    /\ Retrying /\ ~call.returned /\ ~Innermost
    /\ call' = [call EXCEPT
                   !.attempt = Append(@, 1),
                   !.shows = IF call.op = "process_answer" /\ Len(call.attempt) = 1
                             THEN (IF student.current_question_idx < Len(student.questions) - 1
                                   THEN "question" ELSE "review")
                             ELSE @]
    /\ author' = IF call.op = "process_question_type" /\ Len(call.attempt) = 1
                 THEN question_type_chosen(author, call.args.input)
                 ELSE author
    /\ student' = IF call.op = "process_answer" /\ Len(call.attempt) = 1
                  THEN record_answer(student, strip(call.args.input))
                  ELSE student
    /\ UNCHANGED <<dbvars, review, outbox>>

\* safe_edit_message finds the text and the markup unchanged and returns
message_unchanged ==
    /\ Retrying /\ ~call.returned /\ Innermost
    /\ call.args.unchanged
    /\ call' = HandlerReturns
    /\ Delivered

\* query.edit_message_text, or message.reply_text, succeeds
edit_message_text ==
    /\ Retrying /\ ~call.returned /\ Innermost
    /\ ~call.args.unchanged
    /\ call.sent >= call.args.failures
    /\ call' = [HandlerReturns EXCEPT !.sent = @ + 1]
    /\ Delivered

\* query.edit_message_text, or message.reply_text, raises the fault
edit_message_text_raises ==
    /\ Retrying /\ ~call.returned /\ Innermost
    /\ ~call.args.unchanged
    /\ call.sent < call.args.failures
    /\ LET after == Unwind(call.args.flow, call.attempt, call.args.fault)
       IN  IF after.outcome = "retry"
           THEN /\ call' = [call EXCEPT !.sent = @ + 1, !.attempt = after.attempt]
                /\ UNCHANGED <<dbvars, author, student, review, outbox>>
           ELSE IF after.outcome = "returned"
           THEN /\ call' = [HandlerReturns EXCEPT !.sent = @ + 1]
                /\ Delivered
           ELSE /\ call' = [call EXCEPT !.sent = @ + 1, !.attempt = <<>>,
                                        !.returned = TRUE, !.ret = "RetryError"]
                /\ UNCHANGED <<dbvars, author, student, review, outbox>>

NextRetry ==
    \/ call_decorated
    \/ message_unchanged
    \/ edit_message_text
    \/ edit_message_text_raises

SpecRetry == InitRetry /\ [][NextRetry]_vars

(***************************************************************************)
(* Properties of the retries.                                              *)
(***************************************************************************)
\* C27: while one user input is handled, a message edit that keeps failing
\* with a transient delivery error is attempted at most 3 times in total,
\* and a 'message is not modified' error ends the operation at once: the
\* handler has returned after that one attempt.
C27_AtMostThreeAttempts ==
    Retrying =>
        /\ call.args.fault \in {"NetworkError", "TimedOut"} => call.sent <= RetryAttempts
        /\ (call.args.fault = "not_modified" /\ call.sent > 0) =>
              /\ call.sent = 1
              /\ call.returned

(***************************************************************************)
(* bot.py: the teacher's menu leads to the authoring conversation and to   *)
(* the review conversation, and the teacher is in one of them at a time.   *)
(* A run follows the teacher through the conversation entered first.       *)
(***************************************************************************)
InitTeacher == InitReview

author_update ==
    /\ review = IdleReview
    /\ NextAuthor

review_update ==
    /\ author = IdleAuthor
    /\ NextReview

NextTeacher ==
    \/ author_update
    \/ review_update

SpecTeacher == InitTeacher /\ [][NextTeacher]_vars

(***************************************************************************)
(* Properties of rejected inputs.                                          *)
(***************************************************************************)
\* C28: when an input fails validation (a class outside 5..11, a name of
\* more than 100 characters, an invalid set of options, a score that is not
\* a number, a blank comment), the handler returns the conversation state it
\* was in and leaves the draft test, the stored results and the state stack
\* unchanged.
C28_RejectedInputChangesNothing ==
    [][/\ author'.shown \in {"invalid_class", "invalid_name", "invalid_options"} =>
            /\ author'.conv = author.conv
            /\ author'.current_test = author.current_test
            /\ author'.state_stack = author.state_stack
            /\ tests_file' = tests_file
            /\ results_file' = results_file
       /\ Sent({"error_invalid_score", "error_empty_comment"}) =>
            /\ review'.conv = review.conv
            /\ review'.state_stack = review.state_stack
            /\ results_file' = results_file
            /\ tests_file' = tests_file]_vars

\* a name of 101 characters was typed over the name entered before: the
\* author is asked again and the draft keeps the earlier name
C28_Witness ==
    /\ author.shown = "invalid_name"
    /\ author.conv = "TEACHER_ENTER_NAME"
    /\ author.current_test.name = <<"n">>
    /\ Offered(author, "TEACHER_ENTER_NAME", "name") = <<"n">>

(***************************************************************************)
(* database.py: tests.json is shared with the authoring flow of the        *)
(* teachers; a save_test of theirs whose write is cut short leaves the     *)
(* file unreadable while a student is in the test-taking flow.             *)
(***************************************************************************)
tests_write_fails ==
    /\ tests_file.valid
    /\ tests_file' = save_to_file(tests_file, load_file(tests_file), "fail_dump")
    /\ UNCHANGED <<results_file, next_uuid, clock, deployment, write_queue, unfinished,
                   worker, thread, calls, logged, sessions>>

NextShared ==
    \/ NextStudent
    \/ tests_write_fails

SpecShared == InitStudent /\ [][NextShared]_vars

(***************************************************************************)
(* Properties of the handlers that find nothing to load.                   *)
(***************************************************************************)
\* the handlers of the test-taking flow that load the test of the attempt
LoadsTest == student_select_test \/ start_test \/ finish_test

\* C29: when the test an update refers to cannot be loaded (on selecting or
\* starting a test, on finishing an attempt), the handler finishes normally:
\* it does not end by raising an exception, and it returns the state of the
\* enclosing menu.
C29_MissingTestHandled ==
    [][(LoadsTest /\ load_file(tests_file) = <<>>) =>
          /\ student'.shown # "exception"
          /\ student'.conv = "STUDENT_MAIN"]_vars


(***************************************************************************)
(* student_show_result.py: view_test_details called on its own with a      *)
(* stored result; of the message it sends the score lines are kept, one    *)
(* per question of the test.                                               *)
(***************************************************************************)
\* the highest score check_open_answer and _generate_score_report store
MaxStoredScore == 10

\* the longest test whose result is viewed
MaxViewedQuestions == 2

\* the text shown for a question that has no stored score
NoScore == <<"n", "o", " ", "s", "c", "o", "r", "e">>

\* str(n) of a number that is not negative
RECURSIVE str(_)
str(n) ==
    IF n < 10 THEN <<Digits[n + 1]>>
    ELSE str(n \div 10) \o <<Digits[(n % 10) + 1]>>

\* f"{int(score)}/5" if score is not None else the text for no score
score_line(scores, question_idx) ==
    IF question_idx \in DOMAIN scores
    THEN str(scores[question_idx]) \o <<"/", "5">>
    ELSE NoScore

\* the score lines of the report of view_test_details
test_details(test, test_result) ==
    [idx \in 0..(Len(test.questions) - 1) |-> score_line(test_result.scores, idx)]

ViewedTests ==
    {[SampleTest("t1") EXCEPT !.questions = SubSeq(SampleQuestions, 1, n)] :
        n \in 0..MaxViewedQuestions}

\* the scores a result is stored with: none or one in 0..MaxStoredScore
\* for each question
StoredScores ==
    UNION {[idxs -> 0..MaxStoredScore] : idxs \in SUBSET (0..(MaxViewedQuestions - 1))}

InitDetails ==
    /\ InitFiles
    /\ InitGateway
    /\ author = IdleAuthor /\ student = IdleStudent /\ review = IdleReview /\ outbox = <<>>
    /\ deployment = "bot"
    /\ \E test \in ViewedTests, scores \in StoredScores :
          /\ DOMAIN scores \subseteq 0..(Len(test.questions) - 1)
          /\ call = [op |-> "view_test_details",
                     args |-> [test |-> test,
                               test_result |-> ResultData(test.id, EmptyDict, scores, 0)],
                     returned |-> FALSE, ret |-> None]

view_test_details ==
    /\ ~call.returned
    /\ call' = [call EXCEPT !.returned = TRUE,
                            !.ret = test_details(call.args.test, call.args.test_result)]
    /\ UNCHANGED <<dbvars, author, student, review, outbox>>

NextDetails == view_test_details

SpecDetails == InitDetails /\ [][NextDetails]_vars

(***************************************************************************)
(* Properties of the score lines of the results view.                      *)
(***************************************************************************)
Viewed == call.op = "view_test_details" /\ call.returned

\* the number a score line shows before its "/5"
ShownScore(line) == DecimalValue(SubSeq(line, 1, Len(line) - 2))

\* C30: the score shown to a student for a question of a stored result is
\* the stored score brought from the scale of ten to the scale of five
\* (half of it, to the whole number shown), so for a stored score in 0..10
\* the number shown lies in 0..5
C30_ShownScoreOnScaleOfFive ==
    Viewed =>
        \A idx \in DOMAIN call.args.test_result.scores :
            LET stored == call.args.test_result.scores[idx]
                shown  == ShownScore(call.ret[idx])
            IN  stored \in 0..10 =>
                    /\ shown \in 0..5
                    /\ 2 * shown \in (stored - 1)..(stored + 1)


(***************************************************************************)
(* Properties of the state stack against the state a handler returns.      *)
(***************************************************************************)
\* the session is inside its flow and its last handler returned a state
Routed(conv, last) == conv \notin {"END", "TEACHER_MAIN"} /\ last # "exception"

LastShown == IF Len(review.shown) = 0 THEN None ELSE review.shown[Len(review.shown)]

\* C31: after a handler of the authoring, test-taking or review flow has
\* completed, the top of the state stack of the session is the conversation
\* state in which the next input of the session is handled
C31_StackTopIsConversationState ==
    /\ Routed(author.conv, author.shown) => current(author.state_stack) = author.conv
    /\ Routed(student.conv, student.shown) => current(student.state_stack) = student.conv
    /\ Routed(review.conv, LastShown) => current(review.state_stack) = review.conv


(***************************************************************************)
(* Properties of an appeal submitted again after the teacher's response.   *)
(***************************************************************************)
\* the appeals of the result a save_appeal task names that are stored for
\* the question of the task and carry the teacher's response
RespondedBefore(task) ==
    LET before == AppealsOf(results_file.data, task.key, task.rid)
    IN  {j \in 1..Len(before) : /\ before[j].question_idx = task.payload.question_idx
                                /\ before[j].status = "responded"}

\* C32: a new appeal for a question whose stored appeal has been responded
\* to replaces the stored appeal as a whole except for its id: the appeal
\* list keeps its length, the stored appeal is the submitted one under the
\* old id, its status is pending again and the teacher_comment and
\* response_timestamp of the response are no longer stored
C32_NewAppealReplacesResponded ==
    [][\A w \in Workers :
          (/\ worker[w].pc = "loaded"
           /\ worker'[w].pc = "idle"
           /\ worker[w].task.op = "save_appeal"
           /\ results_file' # results_file
           /\ results_file'.valid)
          => LET task   == worker[w].task
                 before == AppealsOf(results_file.data, task.key, task.rid)
                 after  == AppealsOf(results_file'.data, task.key, task.rid)
             IN  \A j \in RespondedBefore(task) :
                    /\ Len(after) = Len(before)
                    /\ after[j] = [task.payload EXCEPT !.id = before[j].id]
                    /\ after[j].status = "pending"
                    /\ after[j].teacher_comment = <<>>
                    /\ after[j].response_timestamp = 0]_vars

\* the worker has loaded the store to apply a new appeal for a question
\* whose stored appeal carries a response with a comment of the teacher
C32_Witness ==
    \E w \in Workers :
        /\ worker[w].pc = "loaded"
        /\ worker[w].task.op = "save_appeal"
        /\ worker[w].data = results_file.data
        /\ results_file.valid
        /\ \E j \in RespondedBefore(worker[w].task) :
              LET stored == AppealsOf(results_file.data, worker[w].task.key, worker[w].task.rid)[j]
              IN  /\ stored.teacher_comment # <<>>
                  /\ stored.student_comment # worker[w].task.payload.student_comment


(***************************************************************************)
(* teacher_create.py: the question-edit handlers run on a finished draft.  *)
(* The teacher has entered subject, class and name, added one closed       *)
(* question and pressed "edit questions" on the finalization menu.         *)
(***************************************************************************)
\* the stack after that path
EditStack ==
    <<"TEACHER_SELECT_SUBJECT", "TEACHER_SELECT_CLASS", "TEACHER_ENTER_NAME",
      "TEACHER_QUESTION_TYPE", "TEACHER_ENTER_QUESTION", "TEACHER_ENTER_CORRECT_ANSWER",
      "TEACHER_ADD_OPTIONS", "TEACHER_FINISH_CREATION", "TEACHER_EDIT_QUESTIONS">>

\* the options process_options stored for the question: the distractors
\* typed, then the correct answer "a".  The last list is the longest
\* validate_options accepts.
EditedOptions ==
    {<<<<"b">>, <<"a">>>>,
     <<<<"c">>, <<"a">>>>,
     <<<<"c">>, <<"b">>, <<"a">>>>,
     <<<<"c">>, <<"d">>, <<"e">>, <<"f">>, <<"g">>, <<"h">>, <<"a">>>>}

\* the session after that path; _finalize_question has cleared the data of
\* the question steps
EditingAuthor(teacher, options) ==
    [conv |-> "TEACHER_EDIT_QUESTIONS", state_stack |-> EditStack,
     state_data |-> set_data(set_data(set_data(EmptyDict,
                        "TEACHER_SELECT_SUBJECT", "subject", <<"m">>),
                        "TEACHER_SELECT_CLASS", "classes", <<<<"5">>>>),
                        "TEACHER_ENTER_NAME", "name", <<"n">>),
     current_test |-> [EmptyTest EXCEPT
                          !.subject = <<"m">>, !.classes = <<<<"5">>>>, !.name = <<"n">>,
                          !.teacher_id = teacher,
                          !.questions = <<Question("test", <<"q">>, <<"a">>, options)>>],
     editing_question_idx |-> -1, editing_part |-> None, shown |-> "question_list"]

InitEdit ==
    /\ InitFiles
    /\ InitGateway
    /\ student = IdleStudent /\ review = IdleReview /\ outbox = <<>>
    /\ deployment = "bot"
    /\ call = [op |-> "edit_questions", args |-> <<>>, returned |-> FALSE, ret |-> None]
    /\ \E teacher \in Teachers, options \in EditedOptions :
          author = EditingAuthor(teacher, options)

NextEdit ==
    \/ select_question_to_edit
    \/ edit_question_part
    \/ save_edited_question
    \/ back_to_question_list

SpecEdit == InitEdit /\ [][NextEdit]_vars


(***************************************************************************)
(* Properties of the options after the correct answer was edited.          *)
(***************************************************************************)
\* the question save_edited_question works on, before and after the step
EditedBefore == author.current_test.questions[Position(author.current_test.questions,
                                                       author.editing_question_idx)]

EditedAfter == author'.current_test.questions[Position(author.current_test.questions,
                                                       author.editing_question_idx)]

\* save_edited_question stored a new correct answer in a closed question
CorrectAnswerChanged ==
    /\ save_edited_question
    /\ author.editing_part = "correct"
    /\ ValidIndex(author.current_test.questions, author.editing_question_idx)
    /\ author'.shown # "exception"
    /\ EditedBefore.type = "test"
    /\ EditedAfter.correct_answer # EditedBefore.correct_answer

Occurrences(options, value) == Cardinality({i \in 1..Len(options) : options[i] = value})

\* C33: after the correct answer of a closed question was changed in the
\* question-edit flow, the options of the question hold the new correct
\* answer exactly once, do not hold the previous correct answer any more,
\* and are between 2 and 7 pairwise different entries
C33_OptionsFollowCorrectAnswer ==
    [][CorrectAnswerChanged =>
          /\ Occurrences(EditedAfter.options, EditedAfter.correct_answer) = 1
          /\ Occurrences(EditedAfter.options, EditedBefore.correct_answer) = 0
          /\ Len(EditedAfter.options) \in 2..7
          /\ \A i, j \in 1..Len(EditedAfter.options) :
                EditedAfter.options[i] = EditedAfter.options[j] => i = j]_vars


(***************************************************************************)
(* Properties of a handler that the retry wrapper runs again.              *)
(***************************************************************************)
\* C34: when the retry wrapper runs a handler again after a delivery
\* failure, the changes of the session made before the failure are not made
\* a second time: one click on a question type adds exactly one question to
\* the draft, and one typed answer is recorded for exactly one question and
\* moves the question index on by exactly one
C34_RerunAppliesChangesOnce ==
    /\ call.op = "process_question_type" =>
          /\ Len(author.current_test.questions) <= 1
          /\ (call.returned /\ call.ret = "state") => Len(author.current_test.questions) = 1
    /\ call.op = "process_answer" =>
          /\ DOMAIN student.user_answers \subseteq {0}
          /\ student.current_question_idx <= 1
          /\ (call.returned /\ call.ret = "state") =>
                /\ DOMAIN student.user_answers = {0}
                /\ student.current_question_idx = 1


(***************************************************************************)
(* Properties of the notification of an appeal response.                   *)
(***************************************************************************)
\* the changes a step adds to test_changes
AddedChanges ==
    UNION {{review'.test_changes[k][i] :
                i \in (Len(DictGet(review.test_changes, k, <<>>)) + 1)..Len(review'.test_changes[k])} :
           k \in DOMAIN review'.test_changes}

\* the users under whose key a result holds the appeal the teacher responds to
AppealOwners ==
    {a.user_id : a \in {x \in SeqToSet(load_all_appeals(load_file(results_file))) :
                            x.id = review.current_appeal_id}}

\* C35: the notification enqueued for an appeal response is addressed to
\* the student who owns the result that holds the appeal, also when several
\* students, or several attempts of one student, have results for the same
\* test and question
C35_AppealNotificationToOwner ==
    [][save_appeal_response =>
          \A change \in AddedChanges :
              change.type = "appeal" => change.student_id \in AppealOwners]_vars


(***************************************************************************)
(* teacher_show_result.py: the rows of the appeals list.                   *)
(***************************************************************************)
\* create_appeals_keyboard: the callback data of the three buttons of the
\* row of an appeal.  result_id is the id of the first loaded result of the
\* appeal's test that answered the appealed question, EmptyId for the ""
\* of no such result
appeal_row(appeal, results) ==
    LET r == FirstIndex(results, LAMBDA x : /\ x.test_id = appeal.test_id
                                            /\ appeal.question_idx \in DOMAIN x.answers)
        result_id == IF r = 0 THEN EmptyId ELSE results[r].id
    IN  [edit_score     |-> <<result_id, appeal.question_idx>>,
         respond_appeal |-> appeal.id,
         add_comment    |-> <<result_id, appeal.question_idx>>]

\* the appeals view_appeals lists for the current test
ListedAppeals ==
    SelectSeq(load_all_appeals(load_file(results_file)),
              LAMBDA a : a.test_id = review.current_test_id)

\* the ids of the results that hold an appeal with this id
HoldingResults(appeal_id) ==
    {r.id : r \in {x \in SeqToSet(load_all_results(load_file(results_file))) :
                       \E k \in 1..Len(x.appeals) : x.appeals[k].id = appeal_id}}

\* C36: in the appeals list the 'edit score' and 'add comment' buttons of
\* the row of an appeal name the result that holds this appeal, not another
\* result of the same test with an answer to the same question, so
\* edit_score and add_comment, which work on the result the button names,
\* change the result of the appeal
C36_AppealRowNamesItsResult ==
    (review.conv = "TEACHER_CHECK_APPEALS" /\ LastShown = "appeals_list") =>
        \A i \in 1..Len(ListedAppeals) :
            LET row == appeal_row(ListedAppeals[i], load_all_results(load_file(results_file)))
            IN  /\ row.edit_score[1] \in HoldingResults(ListedAppeals[i].id)
                /\ row.add_comment[1] \in HoldingResults(ListedAppeals[i].id)


(***************************************************************************)
(* Properties of the message that follows a submitted appeal.              *)
(***************************************************************************)
\* the results store in file holds, in the result of the session, an appeal
\* on the question of the session written at the time now
AppealStored(file, s, now) ==
    \E r \in SeqToSet(TestsOf(load_file(file), s.user_id)) :
        /\ s.current_result_id # <<>>
        /\ r.id = s.current_result_id[1]
        /\ \E k \in 1..Len(r.appeals) :
               /\ r.appeals[k].question_idx = s.appeal_question_idx
               /\ r.appeals[k].timestamp = now

\* process_appeal_comment or confirm_appeal_comment has called db.save_appeal
AppealSubmitted ==
    /\ process_appeal_comment \/ confirm_appeal_comment
    /\ calls' = calls + 1

\* C37: the student is told that the appeal was sent or confirmed only if
\* save_appeal stored it; when the user or the result is not found, or the
\* write fails, the save-error message is shown and the conversation stays
\* in STUDENT_APPEAL_COMMENT.
C37_AppealSentOnlyIfStored ==
    [][AppealSubmitted =>
          IF AppealStored(results_file', student, clock)
          THEN student'.shown \in {"appeal_sent", "appeal_confirmed"}
          ELSE /\ student'.shown = "appeal_save_error"
               /\ student'.conv = "STUDENT_APPEAL_COMMENT"]_vars


(***************************************************************************)
(* database.py: a write and a load of results.json step by step.  The     *)
(* service runs its endpoints on pool threads, so one of them can load     *)
(* the store while the orchestrator runs the closure queued by another.   *)
(* _load_file reads inside "with self.lock"; _save_to_file opens the file  *)
(* for writing, which empties it, and then dumps the dict into it.  The    *)
(* disk does not fail here.                                                *)
(***************************************************************************)
\* the threads that are inside the "with self.lock" block of _load_file
LockHolders ==
    {t \in Threads : thread[t].pc = "locked"} \cup {w \in Workers : worker[w].pc = "locked"}

InitStore ==
    /\ InitFiles
    /\ InitGateway
    /\ InitSessions
    /\ deployment = "api"

\* the closure enters _load_file: self.lock is acquired
closure_acquire(w) ==
    /\ worker[w].pc = "run"
    /\ LockHolders = {}
    /\ worker' = [worker EXCEPT ![w].pc = "locked"]
    /\ UNCHANGED <<sessions, tests_file, results_file, next_uuid, clock, deployment, write_queue,
                   unfinished, thread, calls, logged>>

\* json.load(f), the lock is released and the closure builds the new dict
closure_load(w) ==
    /\ worker[w].pc = "locked"
    /\ worker' = [worker EXCEPT ![w] =
                      [pc |-> "loaded", task |-> worker[w].task,
                       data |-> load_file(results_file),
                       out |-> Body(worker[w].task, load_file(results_file), next_uuid, clock)]]
    /\ UNCHANGED <<sessions, tests_file, results_file, next_uuid, clock, deployment, write_queue,
                   unfinished, thread, calls, logged>>

\* the closure raises ValueError, which the worker loop logs, or it calls
\* _save_to_file: open(filename, "w") leaves the file empty
open_w(w) ==
    /\ worker[w].pc = "loaded"
    /\ IF worker[w].out.exc # None
       THEN /\ logged' = [logged EXCEPT ![worker[w].task.caller] = worker[w].out.exc]
            /\ unfinished' = unfinished - 1
            /\ worker' = [worker EXCEPT ![w] = IdleWorker]
            /\ UNCHANGED results_file
       ELSE /\ results_file' = TornFile
            /\ worker' = [worker EXCEPT ![w].pc = "opened"]
            /\ UNCHANGED <<logged, unfinished>>
    /\ UNCHANGED <<sessions, tests_file, next_uuid, clock, deployment, write_queue, thread, calls>>

\* json.dump(data, f), the file is closed, result[0] is set and task_done()
json_dump(w) ==
    LET task == worker[w].task
        out  == worker[w].out
    IN  /\ worker[w].pc = "opened"
        /\ results_file' = save_to_file(results_file, out.data, "ok")
        /\ next_uuid' = IF out.ret = next_uuid THEN next_uuid + 1 ELSE next_uuid
        /\ thread' = IF task.op # "save_appeal"
                     THEN [thread EXCEPT ![task.caller].cell = out.ret]
                     ELSE thread
        /\ unfinished' = unfinished - 1
        /\ worker' = [worker EXCEPT ![w] = IdleWorker]
        /\ UNCHANGED <<sessions, tests_file, clock, deployment, write_queue, calls, logged>>

\* an endpoint calls load_all_results: _load_file acquires self.lock
load_acquire(t) ==
    /\ t \in ActiveThreads
    /\ thread[t].pc = "idle"
    /\ LockHolders = {}
    /\ calls < MaxCalls
    /\ calls' = calls + 1
    /\ thread' = [thread EXCEPT ![t] = [IdleThread EXCEPT !.pc = "locked",
                                                          !.op = "load_all_results"]]
    /\ UNCHANGED <<sessions, tests_file, results_file, next_uuid, clock, deployment, write_queue,
                   unfinished, worker, logged>>

\* json.load(f) or {} on JSONDecodeError; the lock is released and the dict
\* is returned
load_returns(t) ==
    /\ thread[t].pc = "locked"
    /\ thread' = [thread EXCEPT ![t] = [IdleThread EXCEPT !.op = thread[t].op,
                                                          !.snapshot = load_file(results_file)]]
    /\ UNCHANGED <<sessions, tests_file, results_file, next_uuid, clock, deployment, write_queue,
                   unfinished, worker, calls, logged>>

NextStore ==
    \/ \E t \in Threads : save_result(t)
    \/ \E t \in Threads : save_appeal(t)
    \/ \E t \in Threads : join_returns(t)
    \/ \E w \in Workers : worker_get(w)
    \/ \E w \in Workers : closure_acquire(w)
    \/ \E w \in Workers : closure_load(w)
    \/ \E w \in Workers : open_w(w)
    \/ \E w \in Workers : json_dump(w)
    \/ \E t \in Threads : load_acquire(t)
    \/ \E t \in Threads : load_returns(t)

SpecStore == InitStore /\ [][NextStore]_vars

(***************************************************************************)
(* Properties of a load that runs while the store is written.              *)
(***************************************************************************)
\* the complete contents of results.json: those before and those after the
\* write that is under way, or those of the file when nothing writes it
CompleteContents ==
    IF \E w \in Workers : worker[w].pc = "opened"
    THEN UNION {{worker[w].data, worker[w].out.data} : w \in {x \in Workers : worker[x].pc = "opened"}}
    ELSE {results_file.data}

\* C38: every file write runs while the database lock is held, so a load
\* that runs concurrently with a write returns the complete contents from
\* before the write or the complete contents after it, never an empty or
\* partially written store.
C38_LoadSeesCompleteStore ==
    [][/\ \A w \in Workers : worker'[w].pc = "opened" => w \in LockHolders'
       /\ \A t \in Threads : load_returns(t) => thread'[t].snapshot \in CompleteContents]_vars


(***************************************************************************)
(* Properties of a submitted answer.                                       *)
(***************************************************************************)
\* process_answer or process_choice has accepted the answer
Submitted == (process_answer \/ process_choice) /\ student'.shown \in {"question", "review"}

\* the session after is the session before with the answer to question i
\* recorded and the next screen shown
StoredUnderShownIndex(before, after, i) ==
    /\ DOMAIN after.user_answers = DOMAIN before.user_answers \cup {i}
    /\ \A k \in DOMAIN before.user_answers \ {i} :
          after.user_answers[k] = before.user_answers[k]
    /\ IF i = Len(before.questions) - 1
       THEN after.shown = "review" /\ after.conv = "STUDENT_REVIEW_ANSWERS"
       ELSE /\ after.shown = "question"
            /\ after.current_question_idx = i + 1
            /\ after.conv = "STUDENT_ANSWER_QUESTIONS"

\* while every message is delivered at the first attempt, an accepted
\* answer is stored under the index of the question shown
DeliveredAnswerStored ==
    [][Submitted => StoredUnderShownIndex(student, student', student.current_question_idx)]_vars

\* C39: an answer submitted while question i is shown is stored under index
\* i only, every other recorded answer stays as it was, and question i+1 is
\* shown next, or the review when i is the last index.
C39_AnswerStoredUnderShownIndex ==
    (call.op = "process_answer" /\ call.returned /\ call.ret = "state") =>
        /\ student.user_answers[AnsweringStudent.current_question_idx] = strip(call.args.input)
        /\ StoredUnderShownIndex(AnsweringStudent, student, AnsweringStudent.current_question_idx)


(***************************************************************************)
(* teacher_show_result.py: the pages of the lists.  The review flow is     *)
(* followed with the page counters of user_data and with what the last     *)
(* list message renders; the teacher presses the buttons of that message.  *)
(* The handlers that edit a score, a comment or an appeal response, and    *)
(* the text-part buttons, are not followed: they change no length of a     *)
(* list and move no page forward.                                          *)
(***************************************************************************)
TESTS_PER_PAGE == 5
STUDENTS_PER_PAGE == 5
QUESTIONS_PER_PAGE == 5
ANSWERS_PER_PAGE == 5
APPEALS_PER_PAGE == 5

\* six tests of the teacher; the first has six questions
PagedQuestions == SampleQuestions \o SampleQuestions \o SampleQuestions

PagedTests ==
    <<[key |-> ReviewTeacher,
       tests |-> [i \in 1..6 |-> [SampleTest(ReviewTeacher) EXCEPT
                                     !.id = i,
                                     !.questions = IF i = 1 THEN PagedQuestions
                                                   ELSE SampleQuestions]]]>>

PagedResult(id, test_id, appeal_id, indices) ==
    [ResultData(test_id, [q \in indices |-> <<"a">>], [q \in indices |-> 10], 0)
        EXCEPT !.id = id, !.appeals = <<[AppealData(0, <<"c">>, 0) EXCEPT !.id = appeal_id]>>]

\* six results of test 1, the last of them with the first question answered
\* only, and one result of test 2; an appeal in each
PagedResults ==
    <<[key |-> "u1",
       tests |-> [i \in 1..6 |-> PagedResult(10 + i, 1, 20 + i,
                                              IF i = 6 THEN {0} ELSE QuestionIdx)]
                 \o <<PagedResult(17, 2, 27, QuestionIdx)>>]>>

\* the select_test_ buttons pressed
PagedTestButtons == {1, 2, 6}

NoList == [list |-> None, page |-> 0, total_pages |-> 0, on_page |-> <<>>, items |-> 0]

PagedSession ==
    IdleReview @@ [tests_page |-> 0, students_page |-> 0, questions_page |-> 0,
                   answers_page |-> 0, appeals_page |-> 0, rendered |-> NoList]

LastOf(shown) == IF Len(shown) = 0 THEN None ELSE shown[Len(shown)]

\* (len(items) + PER_PAGE - 1) // PER_PAGE
TotalPages(n, per_page) == (n + per_page - 1) \div per_page

\* items[start_idx:start_idx + PER_PAGE] with start_idx = page * PER_PAGE
OnPage(items, page, per_page) ==
    LET start_idx == page * per_page
        stop      == IF start_idx + per_page < Len(items) THEN start_idx + per_page
                     ELSE Len(items)
    IN  IF start_idx >= Len(items) THEN <<>> ELSE SubSeq(items, start_idx + 1, stop)

\* the handler has left the session as s; when its last message is the
\* list `key', the message renders the page of items
render(s, key, list, items, page, per_page) ==
    IF LastOf(s.shown) = key
    THEN [s EXCEPT !.rendered = [list |-> list, page |-> page,
                                 total_pages |-> TotalPages(Len(items), per_page),
                                 on_page |-> OnPage(items, page, per_page),
                                 items |-> Len(items)]]
    ELSE IF LastOf(s.shown) = "exception" THEN s
    ELSE [s EXCEPT !.rendered = NoList]

tests_list(s) ==
    LET tests == TestsOf(load_file(tests_file), ReviewTeacher)
    IN  render(start_check_results(s), "test_list", "tests",
               [i \in 1..Len(tests) |-> tests[i].id], s.tests_page, TESTS_PER_PAGE)

test_menu(s, test_id) == render(select_test(s, test_id), "test_info", "menu", <<>>, 0, 1)

students_list(s) ==
    LET results == ResultsOfTest(load_file(results_file), s.current_test_id)
    IN  render(stats_students(s, load_file(results_file)), "students_stats", "students",
               [i \in 1..Len(results) |-> results[i].id], s.students_page, STUDENTS_PER_PAGE)

questions_list(s) ==
    LET test == ReviewTest(s.current_test_id)
        n    == IF test = <<>> THEN 0 ELSE Len(test[1].questions)
    IN  render(stats_questions(s), "questions_stats", "questions",
               [i \in 1..n |-> i - 1], s.questions_page, QUESTIONS_PER_PAGE)

answers_list(s, q_idx) ==
    LET results == SelectSeq(ResultsOfTest(load_file(results_file), s.current_test_id),
                             LAMBDA r : q_idx \in DOMAIN r.answers)
    IN  render(view_question_answers(s, q_idx), "question_answers", "answers",
               [i \in 1..Len(results) |-> results[i].id], s.answers_page, ANSWERS_PER_PAGE)

appeals_list(s) ==
    LET appeals == SelectSeq(load_all_appeals(load_file(results_file)),
                             LAMBDA a : a.test_id = s.current_test_id)
    IN  render(view_appeals(s, load_file(results_file)), "appeals_list", "appeals",
               [i \in 1..Len(appeals) |-> appeals[i].id], s.appeals_page, APPEALS_PER_PAGE)

PageActions == {"prev", "next"}

\* create_pagination_buttons: the button is in the keyboard of the message
InKeyboard(action) ==
    /\ review.rendered.list \notin {None, "menu"}
    /\ IF action = "prev" THEN review.rendered.page > 0
       ELSE review.rendered.page < review.rendered.total_pages - 1

\* max(0, page - 1) or page + 1
Moved(page, action) ==
    IF action = "prev" THEN (IF page - 1 < 0 THEN 0 ELSE page - 1) ELSE page + 1

InitPages ==
    /\ tests_file = [valid |-> TRUE, data |-> PagedTests]
    /\ results_file = [valid |-> TRUE, data |-> PagedResults]
    /\ next_uuid = 30
    /\ clock = 1
    /\ InitGateway
    /\ author = IdleAuthor /\ student = IdleStudent /\ outbox = <<>> /\ call = NoCall
    /\ review = PagedSession
    /\ deployment = "bot"

paged_check_results ==
    /\ review.conv = "END"
    /\ ReviewHandled(tests_list(Begin))

paged_navigate_tests ==
    /\ review.conv = "TEACHER_CHECK_RESULTS"
    /\ \E action \in PageActions :
          /\ InKeyboard(action)
          /\ ReviewHandled(tests_list([Begin EXCEPT !.tests_page = Moved(@, action)]))

paged_select_test ==
    /\ review.conv = "TEACHER_CHECK_RESULTS"
    /\ \E test_id \in PagedTestButtons :
          /\ test_id \in SeqToSet(review.rendered.on_page)
          /\ ReviewHandled(test_menu(Begin, test_id))

paged_back_to_tests ==
    /\ review.conv = "TEACHER_CHECK_TEST"
    /\ ReviewLeaves(flush(Begin).sending,
                    tests_list([flush(Begin).session EXCEPT !.current_test_id = EmptyId,
                                                           !.tests_page = 0]))

paged_back_to_main ==
    /\ review.conv = "TEACHER_CHECK_RESULTS"
    /\ ReviewLeaves(flush(Begin).sending,
                    Show([flush(Begin).session EXCEPT !.state_stack = <<>>, !.rendered = NoList],
                         "teacher_menu", "END"))

paged_exit_appeals ==
    /\ review.conv \in {"TEACHER_CHECK_STUDENTS", "TEACHER_CHECK_QUESTIONS", "TEACHER_CHECK_APPEALS"}
    /\ LET s == [flush(Begin).session EXCEPT !.appeals_page = 0,
                                             !.temp_test_id = Begin.current_test_id]
       IN  ReviewLeaves(flush(Begin).sending, test_menu(s, s.temp_test_id))

paged_stats_students ==
    /\ review.conv = "TEACHER_CHECK_TEST"
    /\ ReviewHandled(students_list(Begin))

paged_navigate_students ==
    /\ review.conv = "TEACHER_CHECK_STUDENTS"
    /\ \E action \in PageActions :
          /\ InKeyboard(action)
          /\ ReviewHandled(students_list([Begin EXCEPT !.students_page = Moved(@, action)]))

paged_stats_questions ==
    /\ review.conv = "TEACHER_CHECK_TEST"
    /\ ReviewHandled(questions_list(Begin))

paged_navigate_questions ==
    /\ review.conv = "TEACHER_CHECK_QUESTIONS"
    /\ \E action \in PageActions :
          /\ InKeyboard(action)
          /\ ReviewHandled(questions_list([Begin EXCEPT !.questions_page = Moved(@, action)]))

paged_view_question_answers ==
    /\ review.conv = "TEACHER_CHECK_QUESTIONS"
    /\ \E q_idx \in SeqToSet(review.rendered.on_page) :
          ReviewHandled(answers_list(Begin, q_idx))

\* the question buttons are in the keyboard for q_idx > 0 and for
\* q_idx < total_questions - 1, total_questions being 1 on an empty page
paged_navigate_answers ==
    /\ review.conv = "TEACHER_CHECK_ANSWERS"
    /\ LET q_idx == review.current_question_idx
           total_questions == IF review.rendered.on_page = <<>> THEN 1
                              ELSE Len(ReviewTest(review.current_test_id)[1].questions)
       IN  \/ \E action \in PageActions :
                 /\ InKeyboard(action)
                 /\ ReviewHandled(answers_list([Begin EXCEPT !.answers_page = Moved(@, action)],
                                               q_idx))
           \/ /\ q_idx > 0
              /\ ReviewHandled(answers_list(Begin, q_idx - 1))
           \/ /\ q_idx < total_questions - 1
              /\ ReviewHandled(answers_list(Begin, q_idx + 1))

paged_back_to_questions ==
    /\ review.conv = "TEACHER_CHECK_ANSWERS"
    /\ ReviewHandled(questions_list([Begin EXCEPT !.current_question_idx = -1,
                                                  !.answers_page = 0]))

paged_view_appeals ==
    /\ review.conv = "TEACHER_CHECK_TEST"
    /\ ReviewHandled(appeals_list(Begin))

paged_navigate_appeals ==
    /\ review.conv = "TEACHER_CHECK_APPEALS"
    /\ \E action \in PageActions :
          /\ InKeyboard(action)
          /\ ReviewHandled(appeals_list([Begin EXCEPT !.appeals_page = Moved(@, action)]))

NextPages ==
    \/ paged_check_results
    \/ paged_navigate_tests
    \/ paged_select_test
    \/ paged_back_to_tests
    \/ paged_back_to_main
    \/ paged_exit_appeals
    \/ paged_stats_students
    \/ paged_navigate_students
    \/ paged_stats_questions
    \/ paged_navigate_questions
    \/ paged_view_question_answers
    \/ paged_navigate_answers
    \/ paged_back_to_questions
    \/ paged_view_appeals
    \/ paged_navigate_appeals

SpecPages == InitPages /\ [][NextPages]_vars

(***************************************************************************)
(* Properties of the pages of the lists.                                   *)
(***************************************************************************)
\* the message renders a page of a list that has items
ListShown == review.rendered.list \notin {None, "menu"} /\ review.rendered.items > 0

\* C40: the page index a paginated list of the review flow is rendered with
\* is within 0..total_pages-1 of the list shown, also after the teacher has
\* switched to another test, so a list that has items is never rendered as
\* an empty page.
C40_PageWithinList ==
    ListShown =>
        /\ review.rendered.page \in 0..(review.rendered.total_pages - 1)
        /\ review.rendered.on_page # <<>>

====
